---- MODULE Spec2Model ----
(***************************************************************************)
(* tsmap-extract: recovery of original sources from a sourcemap.           *)
(*                                                                         *)
(* Strings are sequences of one-character strings, so that the path        *)
(* functions are computed character by character as the Go code computes   *)
(* them.  File paths follow the unix build: filepath.Separator is "/" and  *)
(* filepath.FromSlash / ToSlash change nothing.                            *)
(***************************************************************************)
EXTENDS Integers, Sequences, FiniteSets, TLC

VARIABLES
    \* the path functions, applied to one input
    pIn, pStage, pNorm, pOut, pDepth, pRes, pSan, pSan2,
    \* one run of RunExtract (mode "extract") or processMapBytes (mode "crawl")
    mode,       \* which of the two loops runs
    sm,         \* the decoded sourceMap, or the bytes that do not decode
    outputDir,  \* *outDir of RunExtract, outRoot of processMapBytes
    saveMap,    \* the saveMap argument of processMapBytes
    pc,         \* "start", "loop", "done" (returned), "failed" (fatal error)
    idx,        \* the loop index i, from 1
    maxUp,      \* the anchor depth
    written, skipped,
    files, dirs,    \* the file system: absolute paths of files and directories
    retErr,     \* processMapBytes returned an error
    resolved,   \* the entries resolveUnderAnchor was called for
    wrote,      \* the entries os.WriteFile succeeded for, with their path
    mapURL,     \* the mapURL argument of processMapBytes
    \* findChunkURLsReturnPattern, applied to one script text
    cText, cScript, cRoot, cOut, cStage,
    \* processScript
    web,        \* what each URL answers
    pageURL,    \* the page the crawl started from
    saveJS,     \* the saveJS argument
    stack,      \* the calls of processScript in progress, the running one last
    results,    \* what was sent on the results channel
    fetched,    \* the calls of fetchURLBytes
    \* RunCrawl: the worker pool
    concurrency,    \* *concurrency, the capacity of sem
    nScripts,       \* len(scripts)
    spawned,        \* the goroutines started by the loop over scripts
    wg, sem,        \* the WaitGroup counter, the slots of sem taken
    workers,        \* the goroutine of each script
    resultsCh,      \* the results channel of RunCrawl
    closed,         \* close(results) was called
    aggPc,          \* the goroutine that reads results: "range", "endWrite", "ended"
    writtenTotal,
    printed,        \* the results printed by the reader
    sent,           \* the results sent, and those of them that start with "WRITTEN:"
    mainPc,         \* RunCrawl itself: "dispatch", "endWrite", "done"
    summary,        \* the numbers of the "Done." line
    \* the output roots of two scripts
    hA, hB, hOut, hStage,
    \* parseScriptsHTML, applied to one page
    dPage, dBase, dOut, dStage

pathVars == <<pIn, pStage, pNorm, pOut, pDepth, pRes, pSan, pSan2>>

extVars == <<mode, sm, outputDir, saveMap, pc, idx, maxUp, written, skipped,
             files, dirs, retErr, resolved, wrote, mapURL>>

chunkVars == <<cText, cScript, cRoot, cOut, cStage>>

crawlVars == <<web, pageURL, saveJS, stack, results, fetched>>

poolVars == <<concurrency, nScripts, spawned, wg, sem, workers, resultsCh, closed, aggPc,
              writtenTotal, printed, sent, mainPc, summary>>

hostVars == <<hA, hB, hOut, hStage>>

discVars == <<dPage, dBase, dOut, dStage>>

vars == <<pathVars, extVars, chunkVars, crawlVars, poolVars, hostVars, discVars>>

(***************************************************************************)
(* Bounds of the model.                                                    *)
(***************************************************************************)
MaxLen == 3
MaxSegs == 3
MaxDepth == 2
MaxSources == 2
MaxPairs == 2
MaxMatches == 2
MaxLines == 2
MaxStack == 3
MaxPool == 2
MaxScripts == 2
MaxNest == 1
MaxChunks == 1
MaxElements == 3

(***************************************************************************)
(* Package strings.                                                        *)
(***************************************************************************)
WhiteSpace == {" ", "\t", "\n", "\r"}

HasPrefix(s, pre) ==
    /\ Len(s) >= Len(pre)
    /\ SubSeq(s, 1, Len(pre)) = pre

Drop(s, n) == SubSeq(s, n + 1, Len(s))

\* The positions of s, in order, whose character is in cs (is not, for Except).
Positions(s, cs) == SelectSeq([k \in 1..Len(s) |-> k], LAMBDA k : s[k] \in cs)

PositionsExcept(s, cs) == SelectSeq([k \in 1..Len(s) |-> k], LAMBDA k : s[k] \notin cs)

FromFirst(s, keep) == IF keep = <<>> THEN <<>> ELSE SubSeq(s, keep[1], Len(s))

ToLast(s, keep) == IF keep = <<>> THEN <<>> ELSE SubSeq(s, 1, keep[Len(keep)])

\* strings.TrimLeft(s, cs), strings.TrimRight(s, cs)
TrimLeftSet(s, cs) == FromFirst(s, PositionsExcept(s, cs))

TrimRightSet(s, cs) == ToLast(s, PositionsExcept(s, cs))

TrimSpace(s) == TrimRightSet(TrimLeftSet(s, WhiteSpace), WhiteSpace)

ReplaceChar(s, from, to) ==
    [k \in 1..Len(s) |-> IF s[k] = from THEN to ELSE s[k]]

\* The pieces of s between the positions of ends, the last of which is one
\* past the end of s.
SplitAt(s, ends) ==
    [j \in 1..Len(ends) |-> SubSeq(s, IF j = 1 THEN 1 ELSE ends[j - 1] + 1, ends[j] - 1)]

\* strings.Split(s, c) for a one-character separator: Split("", c) is [""].
Split(s, c) == SplitAt(s, Append(Positions(s, {c}), Len(s) + 1))

\* strings.Join(segs, c)
RECURSIVE JoinSegs(_, _)
JoinSegs(segs, c) ==
    IF Len(segs) = 0 THEN <<>>
    ELSE IF Len(segs) = 1 THEN segs[1]
    ELSE segs[1] \o <<c>> \o JoinSegs(Tail(segs), c)

\* for strings.Contains(p, "//") { p = strings.ReplaceAll(p, "//", "/") }:
\* of every run of slashes the first is kept.
Firsts(m) == [k \in 1..Len(m) |-> m[k][1]]

CollapseSlashes(s) ==
    Firsts(SelectSeq([k \in 1..Len(s) |-> <<s[k], k > 1 /\ s[k] = "/" /\ s[k - 1] = "/">>],
                     LAMBDA m : ~m[2]))

(***************************************************************************)
(* Package path/filepath (unix).                                           *)
(***************************************************************************)
IsAbs(p) == Len(p) > 0 /\ p[1] = "/"

\* The element loop of filepath.Clean: "" and "." are dropped, ".." removes
\* the last element unless there is none to remove (kept when the path is
\* relative, dropped when it is rooted).
RECURSIVE CleanElems(_, _, _)
CleanElems(elems, out, rooted) ==
    IF Len(elems) = 0 THEN out
    ELSE LET e == Head(elems)
             nxt == IF e = <<>> \/ e = <<".">> THEN out
                    ELSE IF e = <<".", ".">>
                         THEN IF Len(out) > 0 /\ out[Len(out)] # <<".", ".">>
                              THEN SubSeq(out, 1, Len(out) - 1)
                              ELSE IF rooted THEN out ELSE Append(out, e)
                         ELSE Append(out, e)
         IN  CleanElems(Tail(elems), nxt, rooted)

\* The end of filepath.Clean: the root is put back, the empty path is ".".
CleanResult(rooted, body) ==
    IF rooted THEN <<"/">> \o body
    ELSE IF body = <<>> THEN <<".">> ELSE body

Clean(p) ==
    CleanResult(IsAbs(p), JoinSegs(CleanElems(Split(p, "/"), <<>>, IsAbs(p)), "/"))

\* filepath.Join of two elements: empty elements are ignored, the rest is
\* joined with the separator and cleaned.
Join(a, b) ==
    IF a = <<>> /\ b = <<>> THEN <<>>
    ELSE Clean(IF a = <<>> THEN b ELSE IF b = <<>> THEN a ELSE a \o <<"/">> \o b)

\* The elements of a cleaned path as filepath.Rel walks them: a rooted path
\* starts with the empty element.
Elems(p) ==
    IF p = <<>> THEN <<>>
    ELSE IF p = <<"/">> THEN << <<>> >>
    ELSE Split(p, "/")

RECURSIVE CommonLen(_, _)
CommonLen(a, b) ==
    IF Len(a) > 0 /\ Len(b) > 0 /\ Head(a) = Head(b)
    THEN 1 + CommonLen(Tail(a), Tail(b))
    ELSE 0

RECURSIVE Ups(_)
Ups(n) == IF n = 0 THEN <<>> ELSE << <<".", ".">> >> \o Ups(n - 1)

\* The end of filepath.Rel, from the elements left of base and of targ after
\* their common elements: an error when both are left and base's first is
\* "..", else one ".." for each element left of base, then those of targ.
RelRest(restB, restT) ==
    IF Len(restB) > 0 /\ Len(restT) > 0 /\ restB[1] = <<".", ".">>
    THEN [err |-> TRUE, path |-> <<>>]
    ELSE [err |-> FALSE, path |-> JoinSegs(Ups(Len(restB)) \o restT, "/")]

RelElems(B, T, n) == RelRest(Drop(B, n), Drop(T, n))

\* filepath.Rel on cleaned paths: "." for equal paths, an error for a rooted
\* path against a relative one.
RelClean(base, targ) ==
    IF targ = base THEN [err |-> FALSE, path |-> <<".">>]
    ELSE IF IsAbs(base) # IsAbs(targ) THEN [err |-> TRUE, path |-> <<>>]
    ELSE RelElems(Elems(IF base = <<".">> THEN <<>> ELSE base), Elems(targ),
                  CommonLen(Elems(IF base = <<".">> THEN <<>> ELSE base), Elems(targ)))

\* filepath.Rel(basepath, targpath): [err |-> TRUE, ..] or [err |-> FALSE, path |-> ..]
Rel(basepath, targpath) == RelClean(Clean(basepath), Clean(targpath))

\* os.Getwd(), which filepath.Abs joins a relative path to.
Getwd == <<"/", "w">>

\* filepath.Abs: a relative path is joined to the working directory.
Abs(p) == Clean(IF IsAbs(p) THEN p ELSE Getwd \o <<"/">> \o p)

\* filepath.Dir: the path up to its last separator, cleaned.
Dir(p) == Clean(ToLast(p, Positions(p, {"/"})))

AfterLast(q, pos) == IF pos = <<>> THEN q ELSE SubSeq(q, pos[Len(pos)] + 1, Len(q))

BaseOfTrimmed(p, q) ==
    IF p = <<>> THEN <<".">>
    ELSE IF q = <<>> THEN <<"/">>
    ELSE AfterLast(q, Positions(q, {"/"}))

\* filepath.Base: the last element, trailing separators removed.
Base(p) == BaseOfTrimmed(p, TrimRightSet(p, {"/"}))

Max(S) == CHOOSE x \in S : \A y \in S : y <= x

(***************************************************************************)
(* Path and anchor logic.                                                  *)
(***************************************************************************)
AnchorName == <<".", "a", "n", "c", "h", "o", "r">>
LevelName == <<"l", "e", "v", "e", "l">>
Unnamed == <<"u", "n", "n", "a", "m", "e", "d">>
UpSlash == <<".", ".", "/">>

RECURSIVE Nest(_, _)
Nest(sub, depth) ==
    IF depth = 0 THEN sub ELSE Nest(Join(sub, LevelName), depth - 1)

AnchorsOf(base, depth) == [base |-> base, sub |-> Nest(base, depth)]

buildAnchors(outDir, depth) == AnchorsOf(Join(outDir, AnchorName), depth)

UriPrefixes ==
    << <<"w","e","b","p","a","c","k",":","/","/","/">>,
       <<"w","e","b","p","a","c","k",":","/","/">>,
       <<"f","i","l","e",":","/","/","/">>,
       <<"f","i","l","e",":","/","/">>,
       <<"v","s","c","o","d","e",":","/","/">> >>

\* The first prefix of the list that p starts with is removed, and only it.
RECURSIVE StripFirstPrefix(_, _)
StripFirstPrefix(p, prefs) ==
    IF Len(prefs) = 0 THEN p
    ELSE IF HasPrefix(p, Head(prefs)) THEN Drop(p, Len(Head(prefs)))
    ELSE StripFirstPrefix(p, Tail(prefs))

StripDrive(p) ==
    IF Len(p) >= 2 /\ p[2] = ":"
    THEN TrimLeftSet(Drop(p, 2), {"/"})
    ELSE p

normalizeKeepDots(p) ==
    LET p1 == TrimSpace(p)
        p2 == StripFirstPrefix(p1, UriPrefixes)
        p3 == ReplaceChar(p2, "\\", "/")
        p4 == TrimLeftSet(p3, {"/"})
        p5 == StripDrive(p4)
    IN  CollapseSlashes(p5)

RECURSIVE countLeadingUps(_)
countLeadingUps(p) ==
    IF HasPrefix(p, UpSlash) THEN 1 + countLeadingUps(Drop(p, 3)) ELSE 0

Range(f) == { f[k] : k \in DOMAIN f }

\* The tests mustBeUnder makes on the relative path.
RelIsUnder(rel) ==
    IF rel = <<".">> \/ rel = <<>> THEN TRUE
    ELSE IF HasPrefix(rel, UpSlash) THEN FALSE
    ELSE <<".", ".">> \notin Range(Split(rel, "/"))

RelResultIsUnder(r) ==
    IF r.err THEN FALSE ELSE RelIsUnder(ReplaceChar(r.path, "\\", "/"))

\* TRUE when mustBeUnder returns nil, FALSE when it returns an error.
mustBeUnder(base, target) == RelResultIsUnder(Rel(Abs(base), Abs(target)))

WeirdChars == {"<", ">", ":", "\"", "|", "?", "*"}

replaceWeird(s) ==
    [k \in 1..Len(s) |-> IF s[k] \in WeirdChars THEN "_" ELSE s[k]]

BadSegments == { <<>>, <<".">>, <<".", ".">> }

Placeholder(t) == IF t \in BadSegments THEN Unnamed ELSE t

\* Variants of the segment rule, used to show what the properties rest on:
\* one that keeps "", "." and "..", one that trims after the placeholder test.
sanitizeSegment_NoPlaceholder(seg) == replaceWeird(TrimSpace(seg))

sanitizeSegment_TrimLast(seg) == replaceWeird(TrimSpace(Placeholder(seg)))

\* The body of the loop of sanitizeSegments.
sanitizeSegment(seg) == replaceWeird(Placeholder(TrimSpace(seg)))

SanitizeParts(parts) ==
    JoinSegs([k \in 1..Len(parts) |-> sanitizeSegment(parts[k])], "/")

sanitizeSegments(p) == SanitizeParts(Split(p, "/"))

Blocked == [err |-> TRUE, rel |-> <<>>, abs |-> <<>>]

\* relFromBase after the "unnamed" default, and the destination.
ResolveRelative(outDir, rel) == [err |-> FALSE, rel |-> rel, abs |-> Join(outDir, rel)]

ResolveSanitized(outDir, san) ==
    ResolveRelative(outDir, IF san = <<>> \/ san = <<".">> THEN Unnamed ELSE san)

ResolveRel(outDir, r) ==
    IF r.err THEN Blocked ELSE ResolveSanitized(outDir, sanitizeSegments(r.path))

ResolveClean(outDir, baseAnchor, clean) ==
    IF ~mustBeUnder(baseAnchor, clean) THEN Blocked
    ELSE ResolveRel(outDir, Rel(baseAnchor, clean))

\* [err |-> TRUE, ..] when the path is blocked, else the path relative to the
\* output directory and the absolute destination.
resolveUnderAnchor(outDir, baseAnchor, subAnchor, normKeep) ==
    ResolveClean(outDir, baseAnchor, Clean(Join(subAnchor, normKeep)))

joinMaybe(root, p) ==
    IF TrimSpace(root) = <<>> THEN p
    ELSE TrimRightSet(root, {"/", "\\"}) \o <<"/">> \o TrimLeftSet(p, {"/", "\\"})

(***************************************************************************)
(* Inputs of the path functions: every string of at most MaxLen characters *)
(* over Chars, every path of at most MaxSegs segments drawn from Segs, and *)
(* some longer adversarial paths.                                          *)
(***************************************************************************)
Chars == {".", "/", "a", "\\", ":", " "}

Strings(n) == UNION {[1..k -> Chars] : k \in 0..n}

LongPaths ==
    { <<".",".","/",".",".","/","a">>,
      <<".",".","/",".",".","/",".",".","/","a">>,
      <<"a","/",".",".","/",".",".","/",".",".","/","b">>,
      <<".",".","\\",".",".","\\",".",".","\\",".",".","\\","a">>,
      <<"w","e","b","p","a","c","k",":","/","/","/",".",".","/","a">>,
      <<"f","i","l","e",":","/","/","/","/",".",".","/",".",".","/","a">>,
      <<"C",":","\\",".",".","\\",".",".","\\","a">>,
      <<".","a","n","c","h","o","r","/","a">>,
      <<" ",".",".","/","<",">","\"","|","?","*","/"," ","/","a",":">>,
      <<".","/",".",".","/",".","a","n","c","h","o","r">> }

Segs == { <<".", ".">>, <<"a">>, <<".">>, <<" ", ".", ".">>, AnchorName }

SegPaths == { JoinSegs(q, "/") : q \in UNION {[1..k -> Segs] : k \in 1..MaxSegs} }

PathInputs == Strings(MaxLen) \cup SegPaths \cup LongPaths

OutDirs == { <<"o">>, <<".">>, <<".", ".", "/", "o">>, <<"/", "o">> }

\* p is a proper descendant of dir, both taken from the working directory.
IsProperPrefix(D, P) ==
    /\ Len(P) > Len(D)
    /\ SubSeq(P, 1, Len(D)) = D

IsDescendant(dir, p) == IsProperPrefix(Elems(Abs(dir)), Elems(Abs(p)))

NoRes == Blocked

NoDoc == [valid |-> FALSE, Sources |-> <<>>, SourcesContent |-> <<>>, SourceRoot |-> <<>>]

\* The variables of the extraction loop, while it does not run.
IdleExtract ==
    /\ mode = "none"
    /\ sm = NoDoc
    /\ outputDir = <<>>
    /\ saveMap = FALSE
    /\ pc = "idle"
    /\ idx = 0
    /\ maxUp = 0
    /\ written = 0
    /\ skipped = 0
    /\ files = {}
    /\ dirs = {}
    /\ retErr = FALSE
    /\ resolved = {}
    /\ wrote = {}
    /\ mapURL = <<>>

\* The variables of findChunkURLsReturnPattern, while it is not applied.
IdleChunk ==
    /\ cText = <<>>
    /\ cScript = <<>>
    /\ cRoot = <<>>
    /\ cOut = <<>>
    /\ cStage = "idle"

\* The variables of processScript, while it does not run.
IdleCrawl ==
    /\ web = <<>>
    /\ pageURL = <<>>
    /\ saveJS = FALSE
    /\ stack = <<>>
    /\ results = <<>>
    /\ fetched = <<>>

\* The variables of the worker pool, of the output roots and of the script
\* discovery, while they are not used.
NoSummary == [scripts |-> -1, written |-> -1]

IdlePool ==
    /\ concurrency = 0
    /\ nScripts = 0
    /\ spawned = 0
    /\ wg = 0
    /\ sem = 0
    /\ workers = <<>>
    /\ resultsCh = <<>>
    /\ closed = FALSE
    /\ aggPc = "idle"
    /\ writtenTotal = 0
    /\ printed = 0
    /\ sent = <<0, 0>>
    /\ mainPc = "idle"
    /\ summary = NoSummary

IdleHost ==
    /\ hA = <<>>
    /\ hB = <<>>
    /\ hOut = <<>>
    /\ hStage = "idle"

IdleDiscover ==
    /\ dPage = <<>>
    /\ dBase = <<>>
    /\ dOut = <<>>
    /\ dStage = "idle"

\* The variables of the path functions, while they are not applied.
IdlePath ==
    /\ pIn = <<>>
    /\ pStage = "idle"
    /\ pNorm = <<>>
    /\ pOut = <<>>
    /\ pDepth = 0
    /\ pRes = NoRes
    /\ pSan = <<>>
    /\ pSan2 = <<>>

InitPath ==
    /\ IdleExtract
    /\ IdleChunk
    /\ IdleCrawl
    /\ pIn \in PathInputs
    /\ pStage = "in"
    /\ pNorm = <<>>
    /\ pOut = <<>>
    /\ pDepth = 0
    /\ pRes = NoRes
    /\ pSan = <<>>
    /\ pSan2 = <<>>
    /\ IdlePool
    /\ IdleHost
    /\ IdleDiscover

ResolveIn(o, a, normKeep) == resolveUnderAnchor(o, a.base, a.sub, normKeep)

\* norm := normalizeKeepDots(...)
Normalize ==
    /\ pStage = "in"
    /\ pNorm' = normalizeKeepDots(pIn)
    /\ pStage' = "norm"
    /\ UNCHANGED <<poolVars, hostVars, discVars, pIn, pOut, pDepth, pRes, pSan, pSan2, extVars, chunkVars, crawlVars>>

\* buildAnchors(outDir, depth), then resolveUnderAnchor on the normalized path
Resolve ==
    /\ pStage = "norm"
    /\ \E o \in OutDirs, d \in 0..MaxDepth :
         /\ pOut' = o
         /\ pDepth' = d
         /\ pRes' = ResolveIn(o, buildAnchors(o, d), pNorm)
    /\ pStage' = "resolved"
    /\ UNCHANGED <<poolVars, hostVars, discVars, pIn, pNorm, pSan, pSan2, extVars, chunkVars, crawlVars>>

\* resolveUnderAnchor on a path that was not normalized
ResolveRaw ==
    /\ pStage = "in"
    /\ \E o \in OutDirs, d \in 0..MaxDepth :
         /\ pOut' = o
         /\ pDepth' = d
         /\ pRes' = ResolveIn(o, buildAnchors(o, d), pIn)
    /\ pNorm' = pIn
    /\ pStage' = "resolved"
    /\ UNCHANGED <<poolVars, hostVars, discVars, pIn, pSan, pSan2, extVars, chunkVars, crawlVars>>

Sanitize ==
    /\ pStage = "in"
    /\ pSan' = sanitizeSegments(pIn)
    /\ pStage' = "san"
    /\ UNCHANGED <<poolVars, hostVars, discVars, pIn, pNorm, pOut, pDepth, pRes, pSan2, extVars, chunkVars, crawlVars>>

SanitizeAgain ==
    /\ pStage = "san"
    /\ pSan2' = sanitizeSegments(pSan)
    /\ pStage' = "san2"
    /\ UNCHANGED <<poolVars, hostVars, discVars, pIn, pNorm, pOut, pDepth, pRes, pSan, extVars, chunkVars, crawlVars>>

NextPath ==
    \/ Normalize
    \/ Resolve
    \/ ResolveRaw
    \/ Sanitize
    \/ SanitizeAgain

SpecPath == InitPath /\ [][NextPath]_vars

(***************************************************************************)
(* Properties of the path functions (specification SpecPath).              *)
(***************************************************************************)

\* C1: every absolute path that resolveUnderAnchor returns without error is
\* a descendant of the output directory, whatever the path string (leading
\* "../" runs, ".." in the middle), the anchor depth and the output directory.
C1_Containment ==
    (pStage = "resolved" /\ ~pRes.err) => IsDescendant(pOut, pRes.abs)

\* A path with two leading "../" and a ".." segment left after them was
\* resolved without error under a two-level anchor.
C1_Witness ==
    /\ pStage = "resolved"
    /\ ~pRes.err
    /\ pDepth = 2
    /\ countLeadingUps(pNorm) = 2
    /\ <<" ", ".", ".">> \in Range(Split(Drop(pNorm, 6), "/"))
    /\ IsDescendant(pOut, pRes.abs)

CleanSegments(p) ==
    /\ Range(Split(p, "/")) \cap BadSegments = {}
    /\ Range(p) \cap WeirdChars = {}

\* C5: sanitizeSegments applied twice gives what it gives applied once, and
\* its result has no segment "", "." or ".." and none of < > : " | ? *.
C5_SanitizeIdempotent ==
    /\ pStage \in {"san", "san2"} => CleanSegments(pSan)
    /\ pStage = "san2" => pSan2 = pSan

\* The second application was made on an input the first one changed: a
\* segment to trim, a ".." and a character to replace.
C5_Witness ==
    /\ pStage = "san2"
    /\ pSan2 = pSan
    /\ pSan # pIn
    /\ <<" ", ".", ".">> \in Range(Split(pIn, "/"))
    /\ Range(pIn) \cap WeirdChars # {}

(***************************************************************************)
(* The sourcemap documents and the extraction loops.                       *)
(***************************************************************************)
ContentAt_MissingKept(doc, i) ==
    IF i <= Len(doc.SourcesContent) THEN doc.SourcesContent[i] ELSE doc.Sources[i]

\* content := ""; if i < len(sm.SourcesContent) { content = sm.SourcesContent[i] }
ContentAt(doc, i) ==
    IF i <= Len(doc.SourcesContent) THEN doc.SourcesContent[i] ELSE <<>>

NormOf(doc, i) == normalizeKeepDots(joinMaybe(doc.SourceRoot, doc.Sources[i]))

\* The entries the depth loop does not skip with its continue.
DepthEntries(doc) ==
    { i \in 1..Len(doc.Sources) :
        ~(i <= Len(doc.SourcesContent) /\ TrimSpace(doc.SourcesContent[i]) = <<>>) }

\* a depth that absorbs nothing
computeMaxLeadingUps_Zero(doc) == 0

computeMaxLeadingUps_Flipped(doc) ==
    Max({0} \cup { n \in { countLeadingUps(NormOf(doc, i)) : i \in DepthEntries(doc) } : n < 0 })

computeMaxLeadingUps(doc) ==
    Max({0} \cup { countLeadingUps(NormOf(doc, i)) : i \in DepthEntries(doc) })

computeMaxLeadingUpsFiltered(doc) ==
    Max({0} \cup { countLeadingUps(NormOf(doc, i)) : i \in DepthEntries(doc) })

\* url.URL, the fields the code reads.
URL(scheme, host, path) ==
    [Scheme |-> scheme, Opaque |-> <<>>, Host |-> host, Path |-> path]

\* (*URL).Hostname: the host without its port.
BeforeFirst(h, pos) == IF pos = <<>> THEN h ELSE SubSeq(h, 1, pos[1] - 1)

Hostname(u) == BeforeFirst(u.Host, Positions(u.Host, {":"}))

(***************************************************************************)
(* Package net/url, for URLs without user, query or fragment and with      *)
(* characters that need no escaping.                                       *)
(***************************************************************************)
Letters == { "a", "b", "c", "d", "e", "f", "g", "h", "i", "j", "k", "l", "m", "n", "o", "p", "q", "r", "s", "t", "u", "v", "w", "x", "y", "z" }

DigitChars == << "0", "1", "2", "3", "4", "5", "6", "7", "8", "9" >>

Digits == { DigitChars[k] : k \in 1..Len(DigitChars) }

SchemeChars == Letters \cup Digits \cup {"+", "-", "."}

SchemeSplit(r, stop) ==
    IF r # <<>> /\ r[1] = ":"
    THEN [err |-> TRUE, scheme |-> <<>>, rest |-> <<>>]
    ELSE IF r = <<>> \/ r[1] \notin Letters \/ stop = <<>> \/ r[stop[1]] # ":"
    THEN [err |-> FALSE, scheme |-> <<>>, rest |-> r]
    ELSE [err |-> FALSE, scheme |-> SubSeq(r, 1, stop[1] - 1), rest |-> Drop(r, stop[1])]

\* getScheme: letters, then digits + - . after the first character, up to a
\* colon; a colon in front is "missing protocol scheme".
getScheme(rawURL) == SchemeSplit(rawURL, PositionsExcept(rawURL, SchemeChars))

ParseOK(u) == [err |-> FALSE, url |-> u]

ParseErr == [err |-> TRUE, url |-> URL(<<>>, <<>>, <<>>)]

\* validOptionalPort of the text from the last colon of the host
PortOK(host, colons) ==
    colons = <<>> \/ Range(Drop(host, colons[Len(colons)])) \subseteq Digits

Authority(scheme, authority, rest) ==
    IF PortOK(authority, Positions(authority, {":"}))
    THEN ParseOK(URL(scheme, authority, Drop(rest, Len(authority))))
    ELSE ParseErr

ParseRest(scheme, rest) ==
    IF ~HasPrefix(rest, <<"/">>) /\ scheme # <<>>
    THEN ParseOK([URL(scheme, <<>>, <<>>) EXCEPT !.Opaque = rest])
    ELSE IF ~HasPrefix(rest, <<"/">>) /\ ":" \in Range(BeforeFirst(rest, Positions(rest, {"/"})))
    THEN ParseErr
    ELSE IF HasPrefix(rest, <<"/", "/">>) /\ (scheme # <<>> \/ ~HasPrefix(rest, <<"/", "/", "/">>))
    THEN Authority(scheme, BeforeFirst(Drop(rest, 2), Positions(Drop(rest, 2), {"/"})), Drop(rest, 2))
    ELSE ParseOK(URL(scheme, <<>>, rest))

ParseScheme(s) == IF s.err THEN ParseErr ELSE ParseRest(s.scheme, s.rest)

\* url.Parse
Parse(rawURL) == ParseScheme(getScheme(rawURL))

\* str[:strings.LastIndexByte(str, '/')], with the flag resolvePath keeps
PopElem(d, slashes) ==
    IF slashes = <<>> THEN [dst |-> <<>>, first |-> TRUE]
    ELSE [d EXCEPT !.dst = SubSeq(d.dst, 1, slashes[Len(slashes)] - 1)]

PushElem(d, elem) ==
    [dst |-> (IF d.first THEN d.dst ELSE d.dst \o <<"/">>) \o elem, first |-> FALSE]

StepElem(d, elem) ==
    IF elem = <<".">> THEN [d EXCEPT !.first = FALSE]
    ELSE IF elem = <<".", ".">>
    THEN PopElem(d, Positions(d.dst, {"/"}))
    ELSE PushElem(d, elem)

RECURSIVE WalkElems(_, _, _)
WalkElems(elems, k, d) ==
    IF k > Len(elems) THEN d.dst
    ELSE WalkElems(elems, k + 1, StepElem(d, elems[k]))

Rooted(elems, dst) ==
    IF elems[Len(elems)] \in { <<".">>, <<".", ".">> } THEN <<"/">> \o dst \o <<"/">>
    ELSE <<"/">> \o dst

DropDoubleSlash(r) == IF Len(r) > 1 /\ r[2] = "/" THEN Drop(r, 1) ELSE r

ResolveElems(elems) ==
    DropDoubleSlash(Rooted(elems, WalkElems(elems, 1, [dst |-> <<>>, first |-> TRUE])))

ResolveFull(full) == IF full = <<>> THEN <<>> ELSE ResolveElems(Split(full, "/"))

\* resolvePath: the reference path against the base path, dot segments removed
resolvePath(base, ref) ==
    ResolveFull(IF ref = <<>> THEN base
                ELSE IF ref[1] # "/" THEN ToLast(base, Positions(base, {"/"})) \o ref
                ELSE ref)

\* (*URL).ResolveReference
ResolveReference(u, ref) ==
    IF ref.Scheme # <<>> \/ ref.Host # <<>>
    THEN [ref EXCEPT !.Scheme = IF ref.Scheme = <<>> THEN u.Scheme ELSE ref.Scheme,
                     !.Path = resolvePath(ref.Path, <<>>)]
    ELSE URL(u.Scheme, u.Host, resolvePath(u.Path, ref.Path))

ResolveParsed(u, p) == IF p.err THEN ParseErr ELSE ParseOK(ResolveReference(u, p.url))

\* (*URL).Parse: parse the reference, then resolve it against u
ParseRef(u, ref) == ResolveParsed(u, Parse(ref))

\* (*URL).String
String(u) ==
    (IF u.Scheme # <<>> THEN u.Scheme \o <<":">> ELSE <<>>)
    \o (IF u.Opaque # <<>> THEN u.Opaque
        ELSE (IF (u.Scheme # <<>> \/ u.Host # <<>>) /\ (u.Host # <<>> \/ u.Path # <<>>)
              THEN <<"/", "/">> \o u.Host ELSE <<>>)
             \o (IF u.Path # <<>> /\ u.Path[1] # "/" /\ u.Host # <<>> THEN <<"/">> ELSE <<>>)
             \o u.Path)

HostDir(d) ==
    IF d = <<".">> \/ d = <<"/">> THEN <<>>
    ELSE TrimRightSet(TrimLeftSet(d, {"/"}), {"/"})

HostPath(host, dir) == IF dir = <<>> THEN host ELSE Join(host, dir)

hostPathForURL(scriptURL) ==
    HostPath(Hostname(scriptURL), HostDir(Dir(scriptURL.Path)))

\* The file system.  Paths are kept absolute and cleaned.
Prefixes(E) == { JoinSegs(SubSeq(E, 1, k), "/") : k \in 2..Len(E) }

Ancestors(p) == Prefixes(Elems(Abs(p)))

MkdirAllOK(fs, p) == Ancestors(p) \cap fs = {}

\* The directories os.MkdirAll makes: every one down to the first that is a file.
MkdirAllDirs(fs, p) == { a \in Ancestors(p) : Ancestors(a) \cap fs = {} }

WriteFileOK(ds, p) == Abs(p) \notin ds

PathPool ==
    { <<".",".","\\",".",".","\\","a">>,
      <<"a">>,
      <<"a","/","b">>,
      <<"b","/",".",".","/",".",".","/","c">> }

ContentPool == { <<>>, <<"x">> }

RootPool == { <<>>, <<".", ".">> }

SeqsUpTo(S, n) == UNION {[1..k -> S] : k \in 0..n}

Doc(srcs, cont, root) ==
    [valid |-> TRUE, Sources |-> srcs, SourcesContent |-> cont, SourceRoot |-> root]

\* The example of the README: two sources two levels up with content, one
\* source one level up whose content is empty, whitespace or missing.
AppTs == <<".",".","/",".",".","/","s","r","c","/","a","p","p",".","t","s">>
MathTs == <<".",".","/",".",".","/","s","r","c","/","u","t","i","l","s","/","m","a","t","h",".","t","s">>
YJs == <<".",".","/","n","o","d","e","_","m","o","d","u","l","e","s","/","x","/","y",".","j","s">>

ScenarioDocs ==
    { Doc(<<AppTs, MathTs, YJs>>, c, <<>>) :
        c \in { <<<<"x">>, <<"y">>, <<>>>>, <<<<"x">>, <<"y">>, <<" ">>>>, <<<<"x">>, <<"y">>>> } }

Docs ==
    { Doc(srcs, cont, root) :
        srcs \in SeqsUpTo(PathPool, MaxSources),
        cont \in SeqsUpTo(ContentPool, MaxSources),
        root \in RootPool }

\* a source that leaves the anchor, then a file, then a source that needs
\* that file as its directory
BlockedThenClash ==
    Doc(<< <<"b", "/", ".", ".", "/", ".", ".", "/", "c">>, <<"a">>, <<"a", "/", "b">> >>, << <<"x">>, <<"x">>, <<"x">> >>, <<>>)

InputDocs ==
    { d \in Docs : Len(d.SourcesContent) <= Len(d.Sources) } \cup ScenarioDocs \cup {NoDoc, BlockedThenClash}

ExtractOutDirs == { <<"o">>, <<".", ".", "/", "o">> }

OutBase == <<"o">>

ScriptURLs ==
    { URL(<<"h","t","t","p","s">>, <<"h">>, <<"/","j","s","/","m",".","j","s">>),
      URL(<<"h","t","t","p">>, <<"h",":","8","0">>, <<"/","m",".","j","s">>) }

\* The mapURL arguments: "" for an inline map, else the URL of the map.
MapURLs == { <<>>, <<"h", "t", "t", "p", "s", ":", "/", "/", "h", "/", "j", "s", "/", "m", ".", "j", "s", ".", "m", "a", "p">> }

BaseOrDefault(base) == IF base = <<>> THEN <<"s", "o", "u", "r", "c", "e", "m", "a", "p", ".", "j", "s", "o", "n">> ELSE base

\* mapName: "sourcemap.json", or filepath.Base(mapURL) when there is a mapURL
MapName(url) == IF url = <<>> THEN <<"s", "o", "u", "r", "c", "e", "m", "a", "p", ".", "j", "s", "o", "n">> ELSE BaseOrDefault(Base(url))

InitExtract ==
    /\ IdlePath
    /\ IdleChunk
    /\ IdleCrawl
    /\ sm \in InputDocs
    /\ \/ /\ mode = "extract"
          /\ outputDir \in ExtractOutDirs
          /\ saveMap = FALSE
          /\ mapURL = <<>>
       \/ /\ mode = "crawl"
          /\ outputDir \in { Join(OutBase, hostPathForURL(u)) : u \in ScriptURLs }
          /\ saveMap \in BOOLEAN
          /\ mapURL \in MapURLs
    /\ pc = "start"
    /\ idx = 0
    /\ maxUp = 0
    /\ written = 0
    /\ skipped = 0
    /\ files = {}
    /\ dirs = {}
    /\ retErr = FALSE
    /\ resolved = {}
    /\ wrote = {}
    /\ IdlePool
    /\ IdleHost
    /\ IdleDiscover

ResolveWith(a, normKeep) == resolveUnderAnchor(outputDir, a.base, a.sub, normKeep)

\* resolveUnderAnchor for entry i, under the anchors built for the document
Resolved(i) == ResolveWith(buildAnchors(outputDir, maxUp), NormOf(sm, i))

InLoop == pc = "loop" /\ idx <= Len(sm.Sources)

\* ---- RunExtract ----

\* fail("Invalid sourcemap JSON"), fail("No 'sources' in sourcemap")
RunExtract_Fatal ==
    /\ mode = "extract" /\ pc = "start"
    /\ ~sm.valid \/ Len(sm.Sources) = 0
    /\ pc' = "failed"
    /\ UNCHANGED <<poolVars, hostVars, discVars, pathVars, chunkVars, crawlVars, mapURL, mode, sm, outputDir, saveMap, idx, maxUp, written,
                   skipped, files, dirs, retErr, resolved, wrote>>

\* os.MkdirAll(outDir), computeMaxLeadingUps, buildAnchors
RunExtract_Begin ==
    /\ mode = "extract" /\ pc = "start"
    /\ sm.valid /\ Len(sm.Sources) > 0
    /\ dirs' = dirs \cup MkdirAllDirs(files, outputDir)
    /\ maxUp' = computeMaxLeadingUps(sm)
    /\ idx' = 1
    /\ pc' = "loop"
    /\ UNCHANGED <<poolVars, hostVars, discVars, pathVars, chunkVars, crawlVars, mapURL, mode, sm, outputDir, saveMap, written, skipped,
                   files, retErr, resolved, wrote>>

RunExtract_SkipNoContent ==
    /\ mode = "extract" /\ InLoop
    /\ TrimSpace(ContentAt(sm, idx)) = <<>>
    /\ skipped' = skipped + 1
    /\ idx' = idx + 1
    /\ UNCHANGED <<poolVars, hostVars, discVars, pathVars, chunkVars, crawlVars, mapURL, mode, sm, outputDir, saveMap, pc, maxUp, written,
                   files, dirs, retErr, resolved, wrote>>

RunExtract_SkipBlocked_Fatal ==
    /\ mode = "extract" /\ InLoop
    /\ TrimSpace(ContentAt(sm, idx)) # <<>>
    /\ Resolved(idx).err
    /\ resolved' = resolved \cup {idx}
    /\ pc' = "failed"
    /\ UNCHANGED <<poolVars, hostVars, discVars, pathVars, chunkVars, crawlVars, mapURL, mode, sm, outputDir, saveMap, idx, skipped, maxUp, written,
                   files, dirs, retErr, wrote>>

RunExtract_SkipBlocked ==
    /\ mode = "extract" /\ InLoop
    /\ TrimSpace(ContentAt(sm, idx)) # <<>>
    /\ Resolved(idx).err
    /\ resolved' = resolved \cup {idx}
    /\ skipped' = skipped + 1
    /\ idx' = idx + 1
    /\ UNCHANGED <<poolVars, hostVars, discVars, pathVars, chunkVars, crawlVars, mapURL, mode, sm, outputDir, saveMap, pc, maxUp, written,
                   files, dirs, retErr, wrote>>

RunExtract_Write ==
    /\ mode = "extract" /\ InLoop
    /\ TrimSpace(ContentAt(sm, idx)) # <<>>
    /\ ~Resolved(idx).err
    /\ LET abs == Resolved(idx).abs
       IN  /\ MkdirAllOK(files, Dir(abs))
           /\ WriteFileOK(dirs, abs)
           /\ dirs' = dirs \cup MkdirAllDirs(files, Dir(abs))
           /\ files' = files \cup {Abs(abs)}
           /\ wrote' = wrote \cup {<<idx, abs>>}
    /\ resolved' = resolved \cup {idx}
    /\ written' = written + 1
    /\ idx' = idx + 1
    /\ UNCHANGED <<poolVars, hostVars, discVars, pathVars, chunkVars, crawlVars, mapURL, mode, sm, outputDir, saveMap, pc, maxUp, skipped, retErr>>

\* fail("Create dir"), fail("Write file")
RunExtract_IOFail ==
    /\ mode = "extract" /\ InLoop
    /\ TrimSpace(ContentAt(sm, idx)) # <<>>
    /\ ~Resolved(idx).err
    /\ LET abs == Resolved(idx).abs
       IN  /\ ~MkdirAllOK(files, Dir(abs)) \/ ~WriteFileOK(dirs, abs)
           /\ dirs' = dirs \cup MkdirAllDirs(files, Dir(abs))
    /\ resolved' = resolved \cup {idx}
    /\ pc' = "failed"
    /\ UNCHANGED <<poolVars, hostVars, discVars, pathVars, chunkVars, crawlVars, mapURL, mode, sm, outputDir, saveMap, idx, maxUp, written,
                   skipped, files, retErr, wrote>>

\* the Summary line
RunExtract_Summary ==
    /\ mode = "extract" /\ pc = "loop" /\ idx > Len(sm.Sources)
    /\ pc' = "done"
    /\ UNCHANGED <<poolVars, hostVars, discVars, pathVars, chunkVars, crawlVars, mapURL, mode, sm, outputDir, saveMap, idx, maxUp, written,
                   skipped, files, dirs, retErr, resolved, wrote>>

\* ---- processMapBytes ----

\* json.Unmarshal fails: return 0, err
processMapBytes_DecodeError ==
    /\ mode = "crawl" /\ pc = "start"
    /\ ~sm.valid
    /\ retErr' = TRUE
    /\ pc' = "done"
    /\ UNCHANGED <<poolVars, hostVars, discVars, pathVars, chunkVars, crawlVars, mapURL, mode, sm, outputDir, saveMap, idx, maxUp, written,
                   skipped, files, dirs, resolved, wrote>>

\* os.MkdirAll(outRoot), the optional copy of the map, computeMaxLeadingUpsFiltered,
\* buildAnchors.  The errors of the first two are dropped.
processMapBytes_Begin ==
    /\ mode = "crawl" /\ pc = "start"
    /\ sm.valid
    /\ dirs' = dirs \cup MkdirAllDirs(files, outputDir)
    /\ files' = IF saveMap /\ MkdirAllOK(files, outputDir)
                      /\ WriteFileOK(dirs, Join(outputDir, MapName(mapURL)))
                THEN files \cup {Abs(Join(outputDir, MapName(mapURL)))}
                ELSE files
    /\ maxUp' = computeMaxLeadingUpsFiltered(sm)
    /\ idx' = 1
    /\ pc' = "loop"
    /\ UNCHANGED <<poolVars, hostVars, discVars, pathVars, chunkVars, crawlVars, mapURL, mode, sm, outputDir, saveMap, written, skipped,
                   retErr, resolved, wrote>>

processMapBytes_SkipNoContent ==
    /\ mode = "crawl" /\ InLoop
    /\ TrimSpace(ContentAt(sm, idx)) = <<>>
    /\ idx' = idx + 1
    /\ UNCHANGED <<poolVars, hostVars, discVars, pathVars, chunkVars, crawlVars, mapURL, mode, sm, outputDir, saveMap, pc, maxUp, written,
                   skipped, files, dirs, retErr, resolved, wrote>>

processMapBytes_SkipBlocked ==
    /\ mode = "crawl" /\ InLoop
    /\ TrimSpace(ContentAt(sm, idx)) # <<>>
    /\ Resolved(idx).err
    /\ resolved' = resolved \cup {idx}
    /\ idx' = idx + 1
    /\ UNCHANGED <<poolVars, hostVars, discVars, pathVars, chunkVars, crawlVars, mapURL, mode, sm, outputDir, saveMap, pc, maxUp, written,
                   skipped, files, dirs, retErr, wrote>>

processMapBytes_Write ==
    /\ mode = "crawl" /\ InLoop
    /\ TrimSpace(ContentAt(sm, idx)) # <<>>
    /\ ~Resolved(idx).err
    /\ LET abs == Resolved(idx).abs
       IN  /\ MkdirAllOK(files, Dir(abs))
           /\ WriteFileOK(dirs, abs)
           /\ dirs' = dirs \cup MkdirAllDirs(files, Dir(abs))
           /\ files' = files \cup {Abs(abs)}
           /\ wrote' = wrote \cup {<<idx, abs>>}
    /\ resolved' = resolved \cup {idx}
    /\ written' = written + 1
    /\ idx' = idx + 1
    /\ UNCHANGED <<poolVars, hostVars, discVars, pathVars, chunkVars, crawlVars, mapURL, mode, sm, outputDir, saveMap, pc, maxUp, skipped, retErr>>

\* return written, err
processMapBytes_IOFail ==
    /\ mode = "crawl" /\ InLoop
    /\ TrimSpace(ContentAt(sm, idx)) # <<>>
    /\ ~Resolved(idx).err
    /\ LET abs == Resolved(idx).abs
       IN  /\ ~MkdirAllOK(files, Dir(abs)) \/ ~WriteFileOK(dirs, abs)
           /\ dirs' = dirs \cup MkdirAllDirs(files, Dir(abs))
    /\ resolved' = resolved \cup {idx}
    /\ retErr' = TRUE
    /\ pc' = "done"
    /\ UNCHANGED <<poolVars, hostVars, discVars, pathVars, chunkVars, crawlVars, mapURL, mode, sm, outputDir, saveMap, idx, maxUp, written,
                   skipped, files, wrote>>

\* return written, nil
processMapBytes_Return ==
    /\ mode = "crawl" /\ pc = "loop" /\ idx > Len(sm.Sources)
    /\ pc' = "done"
    /\ UNCHANGED <<poolVars, hostVars, discVars, pathVars, chunkVars, crawlVars, mapURL, mode, sm, outputDir, saveMap, idx, maxUp, written,
                   skipped, files, dirs, retErr, resolved, wrote>>

NextExtract ==
    \/ RunExtract_Fatal
    \/ RunExtract_Begin
    \/ RunExtract_SkipNoContent
    \/ RunExtract_SkipBlocked
    \/ RunExtract_Write
    \/ RunExtract_IOFail
    \/ RunExtract_Summary
    \/ processMapBytes_DecodeError
    \/ processMapBytes_Begin
    \/ processMapBytes_SkipNoContent
    \/ processMapBytes_SkipBlocked
    \/ processMapBytes_Write
    \/ processMapBytes_IOFail
    \/ processMapBytes_Return

SpecExtract == InitExtract /\ [][NextExtract]_vars

(***************************************************************************)
(* Properties of the extraction loops.                                     *)
(***************************************************************************)
\* The entries whose aligned content is present and not blank.
NonEmptyEntries(doc) ==
    { i \in 1..Len(doc.Sources) :
        i <= Len(doc.SourcesContent) /\ TrimSpace(doc.SourcesContent[i]) # <<>> }

DepthOver(doc, I) == Max({0} \cup { countLeadingUps(NormOf(doc, i)) : i \in I })

\* C2: the anchor depth is the maximum number of leading "../" over the
\* entries whose content is non-empty, and 0 when no entry has content.
C2_DepthOverNonEmpty ==
    (pc \in {"loop", "done"} /\ sm.valid) => maxUp = DepthOver(sm, NonEmptyEntries(sm))

\* C3: an entry whose content is missing is treated as empty everywhere: the
\* entries that contribute to the depth are exactly the entries the write
\* loop resolves.
C3_MissingIsEmpty ==
    (pc = "done" /\ sm.valid /\ ~retErr) => DepthEntries(sm) = resolved

NoContent(i) ==
    i > Len(sm.SourcesContent) \/ TrimSpace(sm.SourcesContent[i]) = <<>>

\* C4: the step over an entry whose content is empty or missing writes
\* nothing and leaves the written count alone, in both loops; in RunExtract
\* it adds exactly one to the skipped count.  Nothing written and counted
\* has empty or missing content.
C4_SkipAccounting ==
    /\ [](/\ \A w \in wrote : ~NoContent(w[1])
          /\ written = Cardinality(wrote))
    /\ [][(InLoop /\ NoContent(idx)) =>
             /\ idx' = idx + 1
             /\ written' = written
             /\ files' = files
             /\ wrote' = wrote
             /\ skipped' = IF mode = "extract" THEN skipped + 1 ELSE skipped]_vars

\* RunExtract finished over a document whose second entry has no aligned
\* content and a path that resolves: the first entry was written, the second
\* skipped.
C4_Witness ==
    /\ mode = "extract" /\ pc = "done"
    /\ Len(sm.Sources) = 2 /\ Len(sm.SourcesContent) = 1
    /\ ~Resolved(2).err
    /\ written = 1 /\ skipped = 1
    /\ { w[1] : w \in wrote } = {1}

OutFile(rel) == Abs(Join(outputDir, rel))

\* C8: RunExtract over the README's example ends with depth 2, exactly the
\* files <out>/src/app.ts and <out>/src/utils/math.ts, the third entry
\* skipped, 2 written and 1 skipped.
C8_Scenario ==
    (mode = "extract" /\ sm \in ScenarioDocs) =>
        /\ pc # "failed"
        /\ pc = "done" =>
              /\ maxUp = 2
              /\ files = { OutFile(Drop(AppTs, 6)), OutFile(Drop(MathTs, 6)) }
              /\ { w[1] : w \in wrote } = {1, 2}
              /\ written = 2
              /\ skipped = 1

\* The example ran to its summary with the third content the empty string.
C8_Witness ==
    /\ mode = "extract" /\ pc = "done"
    /\ sm \in ScenarioDocs
    /\ Len(sm.SourcesContent) = 3 /\ sm.SourcesContent[3] = <<>>
    /\ written = 2 /\ skipped = 1
    /\ Cardinality(files) = 2

(***************************************************************************)
(* The text of a script, as the sequence of its lines that one of the      *)
(* regular expressions of crawl.go matches, each with its capture groups.  *)
(***************************************************************************)
\* A match of reReturn: return "<prefix>"+<var1>+"."+{<obj>}[<var2>]+".chunk.js".
\* The object literal is the sequence of its members key:value, a key with
\* or without quotes, a value a string or not.
ReturnLine(prefix, var1, obj, var2) ==
    [kind |-> "return", text |-> prefix, var1 |-> var1, obj |-> obj, var2 |-> var2, doc |-> NoDoc]

\* A match of reSourceMapInline, with the document its payload is the
\* base64 of.  reSourceMapComment matches the line too.
InlineLine(b64, doc) ==
    [kind |-> "inline", text |-> b64, var1 |-> "", obj |-> <<>>, var2 |-> "", doc |-> doc]

\* A match of reSourceMapComment only: //# sourceMappingURL=<ref>
CommentLine(ref) ==
    [kind |-> "comment", text |-> ref, var1 |-> "", obj |-> <<>>, var2 |-> "", doc |-> NoDoc]

Member(key, quoted, val, isString) ==
    [key |-> key, quoted |-> quoted, val |-> val, isString |-> isString]

(***************************************************************************)
(* findChunkURLsReturnPattern                                              *)
(***************************************************************************)
DigitVal(c) == (CHOOSE k \in 1..Len(DigitChars) : DigitChars[k] = c) - 1

RECURSIVE Atoi(_)
Atoi(s) ==
    IF s = <<>> THEN 0 ELSE Atoi(SubSeq(s, 1, Len(s) - 1)) * Len(DigitChars) + DigitVal(s[Len(s)])

IsDigits(s) == s # <<>> /\ Range(s) \subseteq Digits

\* -?\d+ of reIntJson
IsBareInt(s) == IsDigits(IF HasPrefix(s, <<"-">>) THEN Drop(s, 1) ELSE s)

\* what strconv.ParseInt(s, 10, 64) accepts, and its value
IsInt(s) == IsDigits(IF HasPrefix(s, <<"-">>) \/ HasPrefix(s, <<"+">>) THEN Drop(s, 1) ELSE s)

ParseInt(s) ==
    IF HasPrefix(s, <<"-">>) THEN 0 - Atoi(Drop(s, 1))
    ELSE IF HasPrefix(s, <<"+">>) THEN Atoi(Drop(s, 1))
    ELSE Atoi(s)

\* fmt.Sprintf("%d", n)
RECURSIVE Itoa(_)
Itoa(n) ==
    IF n < 0 THEN <<"-">> \o Itoa(0 - n)
    ELSE IF n < Len(DigitChars) THEN <<DigitChars[n + 1]>>
    ELSE Itoa(n \div Len(DigitChars)) \o <<DigitChars[(n % Len(DigitChars)) + 1]>>

\* reIntJson.ReplaceAllString(s, `$1"$2"$3`): quotes around the bare integer keys
quoteNumericObjectKeys(obj) ==
    [k \in 1..Len(obj) |->
        IF ~obj[k].quoted /\ IsBareInt(obj[k].key) THEN [obj[k] EXCEPT !.quoted = TRUE] ELSE obj[k]]

\* json.Unmarshal into map[int]string: every key a quoted integer, every
\* value a string; of two members with one id the later stays.
Unmarshals(norm) ==
    \A k \in 1..Len(norm) : norm[k].quoted /\ IsInt(norm[k].key) /\ norm[k].isString

LastOf(norm, id) ==
    CHOOSE k \in 1..Len(norm) :
        /\ ParseInt(norm[k].key) = id
        /\ \A j \in (k + 1)..Len(norm) : ParseInt(norm[j].key) # id

Unmarshal(norm) ==
    IF Unmarshals(norm)
    THEN [err |-> FALSE,
          kv |-> [id \in { ParseInt(norm[k].key) : k \in 1..Len(norm) } |-> norm[LastOf(norm, id)].val]]
    ELSE [err |-> TRUE, kv |-> <<>>]

parseWeirdJSON(input) == Unmarshal(quoteNumericObjectKeys(input))

ChunkSuffix == <<".", "c", "h", "u", "n", "k", ".", "j", "s">>

\* fmt.Sprintf("%s%d.%s.chunk.js", staticPrefix, k, v)
ChunkName(staticPrefix, k, v) == staticPrefix \o Itoa(k) \o <<".">> \o v \o ChunkSuffix

LeadingSlash(joined) == IF HasPrefix(joined, <<"/">>) THEN joined ELSE <<"/">> \o joined

BaseDir(d) == IF d = <<".">> THEN <<>> ELSE d

\* the URL built from the directory of the script
FromScriptDir(name, scriptURL) ==
    URL(scriptURL.Scheme, scriptURL.Host, LeadingSlash(Join(BaseDir(Dir(scriptURL.Path)), name)))

\* resolved := rootURL.ResolveReference(u), rebuilt from the script when it
\* has no scheme or no host
ResolvedOrScript(res, name, scriptURL) ==
    IF res.Scheme = <<>> \/ res.Host = <<>>
    THEN FromScriptDir(name, scriptURL)
    ELSE res

ChunkURLOf(p, name, scriptURL, rootURL) ==
    IF p.err THEN ParseErr
    ELSE ParseOK(ResolvedOrScript(ResolveReference(rootURL, p.url), name, scriptURL))

\* one candidate: its URL, or err when url.Parse fails on its name
ChunkURL(name, scriptURL, rootURL) == ChunkURLOf(Parse(name), name, scriptURL, rootURL)

\* The orders a range over a map of these keys can take.
Perms(S) ==
    { f \in [1..Cardinality(S) -> S] : \A i, j \in 1..Cardinality(S) : f[i] = f[j] => i = j }

Parsed(cands) == SelectSeq(cands, LAMBDA c : ~c.err)

CandidatesIn(m, kv, order, scriptURL, rootURL) ==
    Parsed([i \in 1..Len(order) |->
              ChunkURL(ChunkName(m.text, order[i], kv[order[i]]), scriptURL, rootURL)])

CandidatesOf(m, j, scriptURL, rootURL) ==
    IF j.err THEN { <<>> }
    ELSE { CandidatesIn(m, j.kv, order, scriptURL, rootURL) : order \in Perms(DOMAIN j.kv) }

SameVar_Ignored(m) == TRUE

\* if varName != varName2 { continue }
SameVar(m) == m.var1 = m.var2

\* what one match appends to out, for each order of the range over kv
MatchOut(m, scriptURL, rootURL) ==
    IF ~SameVar(m) THEN { <<>> }
    ELSE CandidatesOf(m, parseWeirdJSON(m.obj), scriptURL, rootURL)

RECURSIVE MatchesOut(_, _, _)
MatchesOut(matches, scriptURL, rootURL) ==
    IF matches = <<>> THEN { <<>> }
    ELSE { a \o b : a \in MatchOut(Head(matches), scriptURL, rootURL),
                    b \in MatchesOut(Tail(matches), scriptURL, rootURL) }

FirstOccurrences(out) ==
    SelectSeq([k \in 1..Len(out) |-> k],
              LAMBDA k : \A j \in 1..(k - 1) : String(out[j].url) # String(out[k].url))

Picked(out, keep) == [i \in 1..Len(keep) |-> out[keep[i]].url]

\* the trailing loop over seen: the first of each URL string stays
Dedupe(out) == Picked(out, FirstOccurrences(out))

\* reReturn.FindAllStringSubmatchIndex(jsText, -1).  Every match holds
\* ".chunk.js", so the strings.Contains test in front changes no result.
ReturnMatches(jsText) == SelectSeq(jsText, LAMBDA l : l.kind = "return")

\* The results the function can return; they differ by the order of the
\* ranges over the decoded maps.
findChunkURLsReturnPattern(jsText, scriptURL, rootURL) ==
    { Dedupe(out) : out \in MatchesOut(ReturnMatches(jsText), scriptURL, rootURL) }

(***************************************************************************)
(* findChunkURLsReturnPattern applied to one script text.                  *)
(***************************************************************************)
StaticJs == <<"s", "t", "a", "t", "i", "c", "/", "j", "s", "/">>

Https == <<"h", "t", "t", "p", "s">>

PrefixPool ==
    { StaticJs, <<>>, <<"/", "s", "/">>, <<".", ".", "/">>, <<"h", "t", "t", "p", "s", ":", "/", "/", "c", "/">>, <<"/", "/", "c", "/">>, <<":">>, <<"m", ":">> }

M20 == Member(<<"2", "0">>, FALSE, <<"a", "b", "c", "d">>, TRUE)

M21 == Member(<<"2", "1">>, FALSE, <<"e", "f", "g", "h">>, TRUE)

MemberPool ==
    { M20, M21,
      Member(<<"0", "2", "0">>, FALSE, <<"z", "z">>, TRUE),
      Member(<<"-", "1">>, TRUE, <<"q">>, TRUE),
      Member(<<"a">>, FALSE, <<"x">>, TRUE),
      Member(<<"2", "2">>, FALSE, <<"1">>, FALSE) }

AllMatches ==
    { ReturnLine(p, "e", obj, v) :
        p \in PrefixPool, obj \in SeqsUpTo(MemberPool, MaxPairs), v \in {"e", "t"} }

SmallMatches ==
    { ReturnLine(StaticJs, "e", <<M20>>, "e"),
      ReturnLine(StaticJs, "e", <<M21, M20>>, "e"),
      ReturnLine(StaticJs, "e", <<M21>>, "t") }

ChunkTexts == { <<m>> : m \in AllMatches } \cup SeqsUpTo(SmallMatches, MaxMatches)

ScriptPool ==
    { URL(Https, <<"h">>, <<"/", "j", "s", "/", "m", ".", "j", "s">>), URL(Https, <<"c">>, <<"/", "m", ".", "j", "s">>) }

RootPool_URL ==
    { URL(Https, <<"h">>, <<"/", "a", "p", "p", "/", "i", "n", "d", "e", "x", ".", "h", "t", "m", "l">>), URL(Https, <<"h">>, <<"/">>) }

InitChunk ==
    /\ IdlePath
    /\ IdleExtract
    /\ IdleCrawl
    /\ cText \in ChunkTexts
    /\ cScript \in ScriptPool
    /\ cRoot \in RootPool_URL
    /\ cOut = <<>>
    /\ cStage = "in"
    /\ IdlePool
    /\ IdleHost
    /\ IdleDiscover

\* chunkURLs := findChunkURLsReturnPattern(jsText, scriptURL, rootURL)
FindChunks ==
    /\ cStage = "in"
    /\ cOut' \in findChunkURLsReturnPattern(cText, cScript, cRoot)
    /\ cStage' = "out"
    /\ UNCHANGED <<poolVars, hostVars, discVars, pathVars, extVars, crawlVars, cText, cScript, cRoot>>

NextChunk == FindChunks

SpecChunk == InitChunk /\ [][NextChunk]_vars

HasSuffix(s, suf) == Len(s) >= Len(suf) /\ SubSeq(s, Len(s) - Len(suf) + 1, Len(s)) = suf

\* The matches whose two variables are equal and whose object decodes.
Derivable(m) == m.var1 = m.var2 /\ ~parseWeirdJSON(m.obj).err

IdsOf(m) == DOMAIN parseWeirdJSON(m.obj).kv

\* <id>.<hash>.chunk.js
FileOf(m, id) == Itoa(id) \o <<".">> \o parseWeirdJSON(m.obj).kv[id] \o ChunkSuffix

NameParses(m, id) == ~Parse(m.text \o FileOf(m, id)).err

OutStrings == { String(cOut[k]) : k \in 1..Len(cOut) }

\* C9, with the condition that the candidate's name parses as a URL: for
\* each match whose two variables are equal and whose object decodes, each
\* id whose name <prefix><id>.<hash>.chunk.js url.Parse accepts gives one
\* candidate ending in <id>.<hash>.chunk.js; nothing else is a candidate; no
\* URL string comes twice; a text of one such match with n ids gives exactly
\* n candidates, and matches whose variables differ give none.
C9_ChunkDerivation ==
    cStage = "out" =>
        /\ Cardinality(OutStrings) = Len(cOut)
        /\ \A k \in 1..Len(cText) :
             Derivable(cText[k]) =>
                \A id \in IdsOf(cText[k]) :
                    NameParses(cText[k], id) =>
                        \E s \in OutStrings : HasSuffix(s, FileOf(cText[k], id))
        /\ \A s \in OutStrings :
             \E k \in 1..Len(cText) :
                /\ Derivable(cText[k])
                /\ \E id \in IdsOf(cText[k]) :
                     NameParses(cText[k], id) /\ HasSuffix(s, FileOf(cText[k], id))
        /\ (Len(cText) = 1 /\ Derivable(cText[1])
               /\ \A id \in IdsOf(cText[1]) : NameParses(cText[1], id))
             => Len(cOut) = Cardinality(IdsOf(cText[1]))

\* The literal {21:"efgh",20:"abcd"} under the prefix static/js/ with the
\* same variable on both sides gave the two candidates.
C9_Witness ==
    /\ cStage = "out"
    /\ cText = <<ReturnLine(StaticJs, "e", <<M21, M20>>, "e")>>
    /\ Len(cOut) = 2
    /\ \E s \in OutStrings : HasSuffix(s, <<"s", "t", "a", "t", "i", "c", "/", "j", "s", "/", "2", "0", ".", "a", "b", "c", "d", ".", "c", "h", "u", "n", "k", ".", "j", "s">>)
    /\ \E s \in OutStrings : HasSuffix(s, <<"s", "t", "a", "t", "i", "c", "/", "j", "s", "/", "2", "1", ".", "e", "f", "g", "h", ".", "c", "h", "u", "n", "k", ".", "j", "s">>)

\* C9 as stated: every match whose two variables are equal and whose object
\* decodes to n distinct ids gives exactly n candidates.
C9_EveryDecodedMatch ==
    (cStage = "out" /\ Len(cText) = 1 /\ Derivable(cText[1]))
        => Len(cOut) = Cardinality(IdsOf(cText[1]))

IsAbsoluteURL(p) == ~p.err /\ p.url.Scheme # <<>> /\ p.url.Host # <<>>

\* C10: the candidates of a prefix that is not an absolute URL are built
\* from the directory of the script: its scheme, its host, and a path under
\* its directory.
C10_FromScriptDirectory ==
    (cStage = "out" /\ Len(cText) = 1 /\ ~IsAbsoluteURL(Parse(cText[1].text)))
        => \A k \in 1..Len(cOut) :
              /\ cOut[k].Scheme = cScript.Scheme
              /\ cOut[k].Host = cScript.Host
              /\ HasPrefix(cOut[k].Path, Dir(cScript.Path))

(***************************************************************************)
(* processScript: one script and, by recursion, the chunks found in it.    *)
(***************************************************************************)
\* What the server answers for a URL: client.Do fails, or a status and a
\* body, read as script text or as a sourcemap.
Response(fail, status, text, doc) ==
    [fail |-> fail, status |-> status, text |-> text, doc |-> doc]

Down == Response(TRUE, 0, <<>>, NoDoc)

NotFound == Response(FALSE, 404, <<>>, NoDoc)

NotModified == Response(FALSE, 304, <<>>, NoDoc)

ScriptBody(text) == Response(FALSE, 200, text, NoDoc)

MapBody(doc) == Response(FALSE, 200, <<>>, doc)

\* client.Do: "unsupported protocol scheme" unless http or https
Do(w, u) ==
    IF u.Scheme \in { <<"h", "t", "t", "p">>, Https } /\ String(u) \in DOMAIN w THEN w[String(u)] ELSE Down

FetchResult(r) ==
    IF r.fail \/ r.status < 200 \/ r.status >= 400
    THEN [err |-> TRUE, text |-> <<>>, doc |-> NoDoc]
    ELSE [err |-> FALSE, text |-> r.text, doc |-> r.doc]

fetchURLBytes(w, u) == FetchResult(Do(w, u))

\* base64.StdEncoding.DecodeString of a run of [A-Za-z0-9+/=]: whole quanta
\* of four, "=" only as the last one or two characters
PaddingOK(s, pads) ==
    \/ pads = <<>>
    \/ pads = <<Len(s)>>
    \/ pads = <<Len(s) - 1, Len(s)>>

Base64OK(s) == Len(s) % 4 = 0 /\ PaddingOK(s, Positions(s, {"="}))

FirstOf(lines) == IF lines = <<>> THEN <<>> ELSE <<lines[1]>>

\* reSourceMapInline.FindStringSubmatch: the leftmost match, if any
InlineMatch(jsText) == FirstOf(SelectSeq(jsText, LAMBDA l : l.kind = "inline"))

\* reSourceMapComment.FindStringSubmatch: the leftmost match, if any; an
\* inline marker is one.
CommentMatch(jsText) == FirstOf(SelectSeq(jsText, LAMBDA l : l.kind \in {"inline", "comment"}))

DataURI == <<"d", "a", "t", "a", ":", "a", "p", "p", "l", "i", "c", "a", "t", "i", "o", "n", "/", "j", "s", "o", "n", ";", "b", "a", "s", "e", "6", "4", ",">>

\* m[1] of reSourceMapComment
Captured(l) == IF l.kind = "inline" THEN DataURI \o l.text ELSE l.text

Quotes == {"\"", "'"}

\* ref := strings.Trim(strings.TrimSpace(m[1]), "\"'")
RefOf(l) == TrimRightSet(TrimLeftSet(TrimSpace(Captured(l)), Quotes), Quotes)

\* scriptURL.ResolveReference(&url.URL{Path: scriptURL.Path + ".map"})
TryMapURL(scriptURL) ==
    ResolveReference(scriptURL, URL(<<>>, <<>>, scriptURL.Path \o <<".", "m", "a", "p">>))

Frame(scriptURL) == [script |-> scriptURL, at |-> "start", text |-> <<>>, chunks |-> <<>>]

Top == stack[Len(stack)]

Running(at) == stack # <<>> /\ Top.at = at /\ pc = "idle"

SetTop(f) == [stack EXCEPT ![Len(stack)] = f]

Pop == SubSeq(stack, 1, Len(stack) - 1)

\* a result, and the call of processScript that sent it (its script and its
\* depth in the recursion)
Msg(msg, n) == [msg |-> msg, script |-> String(Top.script), n |-> n, depth |-> Len(stack)]

\* a call of fetchURLBytes: the URL, and the call of processScript that made
\* it (its script and its depth in the recursion)
Fetch(u, why) == [url |-> String(u), script |-> String(Top.script), depth |-> Len(stack), why |-> why]

\* hostPath := hostPathForURL(rootURL, scriptURL); processMapBytes(data,
\* outBase, hostPath, beautify, eol, saveMap, mapURL) is entered.
Call(doc, url) ==
    /\ sm' = doc
    /\ outputDir' = Join(OutBase, hostPathForURL(Top.script))
    /\ mapURL' = url
    /\ pc' = "start"
    /\ idx' = 0
    /\ maxUp' = 0
    /\ written' = 0
    /\ retErr' = FALSE
    /\ resolved' = {}
    /\ wrote' = {}
    /\ UNCHANGED <<mode, saveMap, skipped, files, dirs>>

\* processMapBytes returned to the frame waiting for it
Returned(at) == stack # <<>> /\ Top.at = at /\ pc = "done"

Return(msgErr, msgOK) ==
    /\ results' = Append(results, IF retErr THEN Msg(msgErr, 0) ELSE Msg(msgOK, written))
    /\ stack' = Pop
    /\ pc' = "idle"
    /\ UNCHANGED <<poolVars, hostVars, discVars, pathVars, chunkVars, web, pageURL, saveJS, fetched, mode, sm, outputDir,
                   saveMap, mapURL, idx, maxUp, written, skipped, files, dirs, retErr,
                   resolved, wrote>>

\* "Processing", then the script is not fetched: "Failed to fetch script"
processScript_FetchFailed ==
    /\ Running("start")
    /\ fetchURLBytes(web, Top.script).err
    /\ fetched' = Append(fetched, Fetch(Top.script, "script"))
    /\ results' = results \o <<Msg("Processing", 0), Msg("Failed to fetch script", 0)>>
    /\ stack' = Pop
    /\ UNCHANGED <<poolVars, hostVars, discVars, pathVars, chunkVars, extVars, web, pageURL, saveJS>>

\* "Processing", the script is fetched, findChunkURLsReturnPattern
processScript_Fetched ==
    /\ Running("start")
    /\ ~fetchURLBytes(web, Top.script).err
    /\ fetched' = Append(fetched, Fetch(Top.script, "script"))
    /\ results' = Append(results, Msg("Processing", 0))
    /\ \E chunkURLs \in findChunkURLsReturnPattern(fetchURLBytes(web, Top.script).text, Top.script, pageURL) :
         stack' = SetTop([Top EXCEPT !.at = "chunks",
                                     !.text = fetchURLBytes(web, Top.script).text,
                                     !.chunks = chunkURLs])
    /\ UNCHANGED <<poolVars, hostVars, discVars, pathVars, chunkVars, extVars, web, pageURL, saveJS>>

\* "Discovered chunk via return()", then processScript on the chunk
processScript_Chunk ==
    /\ Running("chunks")
    /\ Top.chunks # <<>>
    /\ Len(stack) < MaxStack
    /\ results' = Append(results, [Msg("Discovered chunk", 0) EXCEPT !.script = String(Top.chunks[1])])
    /\ stack' = Append(SetTop([Top EXCEPT !.chunks = Tail(Top.chunks)]), Frame(Top.chunks[1]))
    /\ UNCHANGED <<poolVars, hostVars, discVars, pathVars, chunkVars, extVars, web, pageURL, saveJS, fetched>>

JsPath(scriptURL) == Join(Join(OutBase, hostPathForURL(scriptURL)), Base(scriptURL.Path))

JsDir(scriptURL) == Join(OutBase, hostPathForURL(scriptURL))

\* a variant that saves the script and goes on to the map while chunks are
\* still to process
processScript_SaveJS_Early ==
    /\ Running("chunks")
    /\ IF saveJS
       THEN /\ dirs' = dirs \cup MkdirAllDirs(files, JsDir(Top.script))
            /\ files' = IF MkdirAllOK(files, JsDir(Top.script)) /\ WriteFileOK(dirs, JsPath(Top.script))
                        THEN files \cup {Abs(JsPath(Top.script))}
                        ELSE files
       ELSE UNCHANGED <<files, dirs>>
    /\ stack' = SetTop([Top EXCEPT !.at = "inline"])
    /\ UNCHANGED <<poolVars, hostVars, discVars, pathVars, chunkVars, web, pageURL, saveJS, fetched, results, mode, sm,
                   outputDir, saveMap, mapURL, pc, idx, maxUp, written, skipped, retErr,
                   resolved, wrote>>

\* the chunks are done; if saveJS, os.MkdirAll(outDir) and os.WriteFile of
\* the script, both errors dropped
processScript_SaveJS ==
    /\ Running("chunks")
    /\ Top.chunks = <<>>
    /\ IF saveJS
       THEN /\ dirs' = dirs \cup MkdirAllDirs(files, JsDir(Top.script))
            /\ files' = IF MkdirAllOK(files, JsDir(Top.script)) /\ WriteFileOK(dirs, JsPath(Top.script))
                        THEN files \cup {Abs(JsPath(Top.script))}
                        ELSE files
       ELSE UNCHANGED <<files, dirs>>
    /\ stack' = SetTop([Top EXCEPT !.at = "inline"])
    /\ UNCHANGED <<poolVars, hostVars, discVars, pathVars, chunkVars, web, pageURL, saveJS, fetched, results, mode, sm,
                   outputDir, saveMap, mapURL, pc, idx, maxUp, written, skipped, retErr,
                   resolved, wrote>>

\* 1) no match of reSourceMapInline
processScript_NoInline ==
    /\ Running("inline")
    /\ InlineMatch(Top.text) = <<>>
    /\ stack' = SetTop([Top EXCEPT !.at = "referenced"])
    /\ UNCHANGED <<poolVars, hostVars, discVars, pathVars, chunkVars, extVars, web, pageURL, saveJS, fetched, results>>

\* 1) "Inline map decode error"
processScript_InlineDecodeError ==
    /\ Running("inline")
    /\ InlineMatch(Top.text) # <<>>
    /\ ~Base64OK(InlineMatch(Top.text)[1].text)
    /\ results' = Append(results, Msg("Inline map decode error", 0))
    /\ stack' = SetTop([Top EXCEPT !.at = "referenced"])
    /\ UNCHANGED <<poolVars, hostVars, discVars, pathVars, chunkVars, extVars, web, pageURL, saveJS, fetched>>

\* 1) the payload decodes: processMapBytes(data, ..., "")
processScript_InlineMap ==
    /\ Running("inline")
    /\ InlineMatch(Top.text) # <<>>
    /\ Base64OK(InlineMatch(Top.text)[1].text)
    /\ Call(InlineMatch(Top.text)[1].doc, <<>>)
    /\ stack' = SetTop([Top EXCEPT !.at = "inlineMap"])
    /\ UNCHANGED <<poolVars, hostVars, discVars, pathVars, chunkVars, web, pageURL, saveJS, fetched, results>>

\* a variant that goes on to the next strategy after an inline map that
\* could not be processed
processScript_InlineDone_FallThrough ==
    /\ Returned("inlineMap")
    /\ results' = Append(results, IF retErr THEN Msg("Error processing inline map", 0)
                                            ELSE Msg("WRITTEN inline map", written))
    /\ stack' = IF retErr THEN SetTop([Top EXCEPT !.at = "referenced"]) ELSE Pop
    /\ pc' = "idle"
    /\ UNCHANGED <<poolVars, hostVars, discVars, pathVars, chunkVars, web, pageURL, saveJS, fetched, mode, sm, outputDir,
                   saveMap, mapURL, idx, maxUp, written, skipped, files, dirs, retErr,
                   resolved, wrote>>

\* 1) "Error processing inline map" or "WRITTEN:n inline map", then return
processScript_InlineDone ==
    /\ Returned("inlineMap")
    /\ Return("Error processing inline map", "WRITTEN inline map")

MapURLOf(scriptURL, m) ==
    IF m = <<>> THEN ParseErr ELSE ParseRef(scriptURL, RefOf(m[1]))

\* the mapURL of 2), or err when there is no comment or its ref does not parse
ReferencedURL(f) == MapURLOf(f.script, CommentMatch(f.text))

\* 2) no match of reSourceMapComment, or scriptURL.Parse(ref) fails
processScript_NoReference ==
    /\ Running("referenced")
    /\ ReferencedURL(Top).err
    /\ stack' = SetTop([Top EXCEPT !.at = "conventional"])
    /\ UNCHANGED <<poolVars, hostVars, discVars, pathVars, chunkVars, extVars, web, pageURL, saveJS, fetched, results>>

\* 2) "Failed to fetch map"
processScript_ReferencedFetchFailed ==
    /\ Running("referenced")
    /\ ~ReferencedURL(Top).err
    /\ fetchURLBytes(web, ReferencedURL(Top).url).err
    /\ fetched' = Append(fetched, Fetch(ReferencedURL(Top).url, "referenced"))
    /\ results' = Append(results, Msg("Failed to fetch map", 0))
    /\ stack' = SetTop([Top EXCEPT !.at = "conventional"])
    /\ UNCHANGED <<poolVars, hostVars, discVars, pathVars, chunkVars, extVars, web, pageURL, saveJS>>

\* 2) the map is fetched: processMapBytes(data, ..., mapURL.String())
processScript_ReferencedMap ==
    /\ Running("referenced")
    /\ ~ReferencedURL(Top).err
    /\ ~fetchURLBytes(web, ReferencedURL(Top).url).err
    /\ fetched' = Append(fetched, Fetch(ReferencedURL(Top).url, "referenced"))
    /\ Call(fetchURLBytes(web, ReferencedURL(Top).url).doc, String(ReferencedURL(Top).url))
    /\ stack' = SetTop([Top EXCEPT !.at = "referencedMap"])
    /\ UNCHANGED <<poolVars, hostVars, discVars, pathVars, chunkVars, web, pageURL, saveJS, results>>

\* 2) "Error processing map" or "WRITTEN:n map", then return
processScript_ReferencedDone ==
    /\ Returned("referencedMap")
    /\ Return("Error processing referenced map", "WRITTEN referenced map")

\* 3) script.js.map is not fetched: "No sourcemap"
processScript_NoSourcemap ==
    /\ Running("conventional")
    /\ fetchURLBytes(web, TryMapURL(Top.script)).err
    /\ fetched' = Append(fetched, Fetch(TryMapURL(Top.script), "conventional"))
    /\ results' = Append(results, Msg("No sourcemap", 0))
    /\ stack' = Pop
    /\ UNCHANGED <<poolVars, hostVars, discVars, pathVars, chunkVars, extVars, web, pageURL, saveJS>>

\* 3) script.js.map is fetched: processMapBytes(data, ..., tryMapURL.String())
processScript_ConventionalMap ==
    /\ Running("conventional")
    /\ ~fetchURLBytes(web, TryMapURL(Top.script)).err
    /\ fetched' = Append(fetched, Fetch(TryMapURL(Top.script), "conventional"))
    /\ Call(fetchURLBytes(web, TryMapURL(Top.script)).doc, String(TryMapURL(Top.script)))
    /\ stack' = SetTop([Top EXCEPT !.at = "conventionalMap"])
    /\ UNCHANGED <<poolVars, hostVars, discVars, pathVars, chunkVars, web, pageURL, saveJS, results>>

\* 3) "Error processing map" or "WRITTEN:n map", then return
processScript_ConventionalDone ==
    /\ Returned("conventionalMap")
    /\ Return("Error processing conventional map", "WRITTEN conventional map")

(***************************************************************************)
(* The pages processScript is run against.                                 *)
(***************************************************************************)
DocOne == Doc(<< <<"a">> >>, << <<"x">> >>, <<>>)

\* the second source needs the first one's file as its directory
DocClash == Doc(<< <<"a">>, <<"a", "/", "b">> >>, << <<"x">>, <<"x">> >>, <<>>)

\* the first source leaves the anchor, the second has no content
DocBlocked == Doc(<< <<"b", "/", ".", ".", "/", ".", ".", "/", "c">>, <<"a">> >>, << <<"x">> >>, <<>>)

InlineGood == InlineLine(<<"Q", "U", "J", "D">>, DocOne)

InlineNotJSON == InlineLine(<<"Q", "U", "I", "=">>, NoDoc)

InlineBadBase64 == InlineLine(<<"Q", "U", "J">>, NoDoc)

CommentRef == CommentLine(<<" ", "'", "r", ".", "m", "a", "p", "'">>)

\* the usual comment: the map next to the script, under the script's name
CommentConv == CommentLine(<<"m", ".", "j", "s", ".", "m", "a", "p">>)

ReturnChunk == ReturnLine(StaticJs, "e", <<M20>>, "e")

MarkerTexts == SeqsUpTo({InlineGood, InlineNotJSON, InlineBadBase64, CommentRef, CommentConv}, MaxLines)

RootPage == URL(Https, <<"h">>, <<"/", "i", "n", "d", "e", "x", ".", "h", "t", "m", "l">>)

TopScript == URL(Https, <<"h">>, <<"/", "j", "s", "/", "m", ".", "j", "s">>)

ScriptAt == <<"h", "t", "t", "p", "s", ":", "/", "/", "h", "/", "j", "s", "/", "m", ".", "j", "s">>

RefAt == <<"h", "t", "t", "p", "s", ":", "/", "/", "h", "/", "j", "s", "/", "r", ".", "m", "a", "p">>

ConvAt == <<"h", "t", "t", "p", "s", ":", "/", "/", "h", "/", "j", "s", "/", "m", ".", "j", "s", ".", "m", "a", "p">>

ChunkAt == <<"h", "t", "t", "p", "s", ":", "/", "/", "h", "/", "s", "t", "a", "t", "i", "c", "/", "j", "s", "/", "2", "0", ".", "a", "b", "c", "d", ".", "c", "h", "u", "n", "k", ".", "j", "s">>

ChunkConvAt == <<"h", "t", "t", "p", "s", ":", "/", "/", "h", "/", "s", "t", "a", "t", "i", "c", "/", "j", "s", "/", "2", "0", ".", "a", "b", "c", "d", ".", "c", "h", "u", "n", "k", ".", "j", "s", ".", "m", "a", "p">>

World(s, r, c, k, kc) ==
    [u \in {ScriptAt, RefAt, ConvAt, ChunkAt, ChunkConvAt} |->
        IF u = ScriptAt THEN s
        ELSE IF u = RefAt THEN r
        ELSE IF u = ConvAt THEN c
        ELSE IF u = ChunkAt THEN k
        ELSE kc]

RefBodies == { NotFound, MapBody(DocOne), MapBody(NoDoc), MapBody(DocClash), MapBody(DocBlocked) }

ConvBodies == { Down, NotFound, NotModified, MapBody(DocOne), MapBody(NoDoc) }

ChunkBodies ==
    { NotFound, ScriptBody(<<>>), ScriptBody(<<InlineGood>>), ScriptBody(<<ReturnChunk>>) }

Worlds ==
    { World(NotFound, NotFound, NotFound, NotFound, NotFound) }
    \cup { World(ScriptBody(t), r, c, NotFound, NotFound) :
             t \in MarkerTexts, r \in RefBodies, c \in ConvBodies }
    \cup { World(ScriptBody(<<ReturnChunk>> \o t), r, c, k, kc) :
             t \in SeqsUpTo({InlineGood, InlineBadBase64, CommentRef}, MaxLines - 1),
             r \in {NotFound, MapBody(DocOne)}, c \in ConvBodies,
             k \in ChunkBodies, kc \in {NotFound, MapBody(DocOne)} }

InitCrawl ==
    /\ IdlePath
    /\ IdleChunk
    /\ mode = "crawl"
    /\ sm = NoDoc
    /\ outputDir = <<>>
    /\ mapURL = <<>>
    /\ saveMap \in BOOLEAN
    /\ pc = "idle"
    /\ idx = 0
    /\ maxUp = 0
    /\ written = 0
    /\ skipped = 0
    /\ files = {}
    /\ dirs = {}
    /\ retErr = FALSE
    /\ resolved = {}
    /\ wrote = {}
    /\ web \in Worlds
    /\ pageURL = RootPage
    /\ saveJS = saveMap
    /\ stack = <<Frame(TopScript)>>
    /\ results = <<>>
    /\ fetched = <<>>
    /\ IdlePool
    /\ IdleHost
    /\ IdleDiscover

NextCrawl ==
    \/ processScript_FetchFailed
    \/ processScript_Fetched
    \/ processScript_Chunk
    \/ processScript_SaveJS
    \/ processScript_NoInline
    \/ processScript_InlineDecodeError
    \/ processScript_InlineMap
    \/ processScript_InlineDone
    \/ processScript_NoReference
    \/ processScript_ReferencedFetchFailed
    \/ processScript_ReferencedMap
    \/ processScript_ReferencedDone
    \/ processScript_NoSourcemap
    \/ processScript_ConventionalMap
    \/ processScript_ConventionalDone
    \/ processMapBytes_DecodeError
    \/ processMapBytes_Begin
    \/ processMapBytes_SkipNoContent
    \/ processMapBytes_SkipBlocked
    \/ processMapBytes_Write
    \/ processMapBytes_IOFail
    \/ processMapBytes_Return

SpecCrawl == InitCrawl /\ [][NextCrawl]_vars

(***************************************************************************)
(* Properties of the map locator.                                          *)
(***************************************************************************)
\* The text that was fetched for a script.
TextOf(script) == IF script \in DOMAIN web THEN web[script].text ELSE <<>>

HasDecodableInline(jsText) ==
    \E k \in 1..Len(jsText) : jsText[k].kind = "inline" /\ Base64OK(jsText[k].text)

\* C6: for a script whose text holds an inline map whose payload decodes, no
\* referenced map and no <script>.map is ever fetched.
C6_InlineFirst ==
    \A k \in 1..Len(fetched) :
        fetched[k].why \in {"referenced", "conventional"}
            => ~HasDecodableInline(TextOf(fetched[k].script))

Said(msgs, script) ==
    \E k \in 1..Len(results) : results[k].msg \in msgs /\ results[k].script = script

Fetched(whys, script) ==
    \E k \in 1..Len(fetched) : fetched[k].why \in whys /\ fetched[k].script = script

\* C7: once processScript has returned, a script whose inline strategy
\* failed (bad base64, or bytes that are no sourcemap) had a later strategy
\* attempted, a script whose referenced strategy failed (failed fetch, or
\* bytes that are no sourcemap) had the conventional one attempted, and "No
\* sourcemap" was said only after the conventional fetch.
C7_FallThrough ==
    stack = <<>> =>
        \A script \in DOMAIN web :
            /\ Said({"Inline map decode error", "Error processing inline map"}, script)
                 => Fetched({"referenced", "conventional"}, script)
            /\ Said({"Failed to fetch map", "Error processing referenced map"}, script)
                 => Fetched({"conventional"}, script)
            /\ Said({"No sourcemap"}, script) => Fetched({"conventional"}, script)

(***************************************************************************)
(* RunCrawl: the worker pool.  One goroutine per discovered script takes   *)
(* a slot of sem, runs processScript (the chunks by recursion in the same  *)
(* goroutine) and gives the slot back; one goroutine reads the results     *)
(* channel and counts; main waits, closes the channel and prints.  Here    *)
(* processScript is followed from one blocking operation to the next: a    *)
(* send on results, or a call of fetchURLBytes, which begins and ends.     *)
(***************************************************************************)
\* One call of processScript: where it is, the chunks still to process, and
\* the result it is about to send.
Position(at, chunks, out) == [at |-> at, chunks |-> chunks, out |-> out]

Entered == Position("processing", 0, "log")

Goroutine(gpc, calls, failed) == [pc |-> gpc, calls |-> calls, failed |-> failed]

NotStarted == Goroutine("none", <<>>, FALSE)

InitPool ==
    /\ IdlePath
    /\ IdleExtract
    /\ IdleChunk
    /\ IdleCrawl
    /\ IdleHost
    /\ IdleDiscover
    /\ concurrency \in 0..MaxPool
    /\ nScripts \in 0..MaxScripts
    /\ spawned = 0
    /\ wg = 0
    /\ sem = 0
    /\ workers = [i \in 1..nScripts |-> NotStarted]
    /\ resultsCh = <<>>
    /\ closed = FALSE
    /\ aggPc = "range"
    /\ writtenTotal = 0
    /\ printed = 0
    /\ sent = <<0, 0>>
    /\ mainPc = "dispatch"
    /\ summary = NoSummary

\* results := make(chan string, len(scripts))
Capacity == nScripts

SemFree_Always == TRUE

\* sem <- struct{}{} goes through while the channel of capacity
\* *concurrency has room
SemFree == sem < concurrency

Released_Kept(s) == s

\* <-sem
Released(s) == s - 1

EndWriteReady_NoWait == TRUE

\* <-endWrite meets endWrite <- struct{}{}
EndWriteReady == aggPc = "endWrite"

Cur(i) == workers[i].calls[Len(workers[i].calls)]

InCall(i) == i \in 1..nScripts /\ workers[i].pc = "running" /\ workers[i].calls # <<>>

SetCur(i, c) == [workers[i].calls EXCEPT ![Len(workers[i].calls)] = c]

Returning(i) == SubSeq(workers[i].calls, 1, Len(workers[i].calls) - 1)

\* The positions of processScript at a send on results, and what follows
\* the send: "return", the call of processScript on a chunk, or a position.
AfterSend ==
    [ processing |-> "fetch", failed |-> "return", chunks |-> "call",
      inlineError |-> "noInline", inlineDone |-> "return",
      refFailed |-> "conventional", refDone |-> "return",
      convDone |-> "return", noSourcemap |-> "return" ]

Sends(c) == c.at \in DOMAIN AfterSend /\ (c.at = "chunks" => c.chunks > 0)

CallsAfterSend(i) ==
    IF AfterSend[Cur(i).at] = "return" THEN Returning(i)
    ELSE IF AfterSend[Cur(i).at] = "call"
    THEN Append(SetCur(i, [Cur(i) EXCEPT !.chunks = @ - 1]), Entered)
    ELSE SetCur(i, [Cur(i) EXCEPT !.at = AfterSend[Cur(i).at]])

Counted(s, r) == <<s[1] + 1, IF r = "WRITTEN:" THEN s[2] + 1 ELSE s[2]>>

\* the calls of fetchURLBytes: where they are made, and where they are
\* in flight
Fetching == [ fetch |-> "fetching", referenced |-> "refFetching", conventional |-> "convFetching" ]

InFlight == { Fetching[k] : k \in DOMAIN Fetching }

\* what processMapBytes makes processScript send
MapResults == { "WRITTEN:", "log" }

\* the chunks a script can hold, none below the deepest call
ChunkCounts(depth) == IF depth <= MaxNest THEN 0..MaxChunks ELSE {0}

\* where the end of a fetch leaves processScript: the error, or the text
\* and what is found in it
FetchEnds(c, depth) ==
    IF c.at = "fetching"
    THEN { Position("failed", 0, "log") } \cup { Position("chunks", n, "log") : n \in ChunkCounts(depth) }
    ELSE IF c.at = "refFetching"
    THEN { Position("refFailed", 0, "log") } \cup { Position("refDone", 0, r) : r \in MapResults }
    ELSE { Position("noSourcemap", 0, "log") } \cup { Position("convDone", 0, r) : r \in MapResults }

FetchFailed(c) == c.at \in {"failed", "refFailed", "noSourcemap"}

\* the tests on the text that do not block: 1) the inline marker, 2) the
\* comment and its reference
Decisions(c) ==
    IF c.at = "chunks"
    THEN { Position("inlineError", 0, "log"), Position("noInline", 0, "log") }
         \cup { Position("inlineDone", 0, r) : r \in MapResults }
    ELSE { Position("referenced", 0, "log"), Position("conventional", 0, "log") }

Decides(c) == (c.at = "chunks" /\ c.chunks = 0) \/ c.at = "noInline"

poolFrame == <<pathVars, extVars, chunkVars, crawlVars, hostVars, discVars>>

\* for _, s := range scripts { wg.Add(1); go func ... }
RunCrawl_Dispatch ==
    /\ mainPc = "dispatch"
    /\ spawned < nScripts
    /\ spawned' = spawned + 1
    /\ wg' = wg + 1
    /\ workers' = [workers EXCEPT ![spawned + 1] = Goroutine("waiting", <<>>, FALSE)]
    /\ UNCHANGED <<poolFrame, concurrency, nScripts, sem, resultsCh, closed, aggPc,
                   writtenTotal, printed, sent, mainPc, summary>>

\* sem <- struct{}{}, then processScript is entered
Worker_Acquire(i) ==
    /\ workers[i].pc = "waiting"
    /\ SemFree
    /\ sem' = sem + 1
    /\ workers' = [workers EXCEPT ![i] = Goroutine("running", <<Entered>>, FALSE)]
    /\ UNCHANGED <<poolFrame, concurrency, nScripts, spawned, wg, resultsCh, closed, aggPc,
                   writtenTotal, printed, sent, mainPc, summary>>

\* results <- ..., which waits while the channel is full
processScript_Send(i) ==
    /\ InCall(i)
    /\ Sends(Cur(i))
    /\ Len(resultsCh) < Capacity
    /\ resultsCh' = Append(resultsCh, Cur(i).out)
    /\ sent' = Counted(sent, Cur(i).out)
    /\ workers' = [workers EXCEPT ![i].calls = CallsAfterSend(i)]
    /\ UNCHANGED <<poolFrame, concurrency, nScripts, spawned, wg, sem, closed, aggPc,
                   writtenTotal, printed, mainPc, summary>>

\* fetchURLBytes is called
processScript_BeginFetch(i) ==
    /\ InCall(i)
    /\ Cur(i).at \in DOMAIN Fetching
    /\ workers' = [workers EXCEPT ![i].calls = SetCur(i, [Cur(i) EXCEPT !.at = Fetching[Cur(i).at]])]
    /\ UNCHANGED <<poolFrame, concurrency, nScripts, spawned, wg, sem, resultsCh, closed, aggPc,
                   writtenTotal, printed, sent, mainPc, summary>>

\* fetchURLBytes returns, with an error or with the bytes; the bytes of a
\* map go through processMapBytes
processScript_EndFetch(i) ==
    /\ InCall(i)
    /\ Cur(i).at \in InFlight
    /\ \E c \in FetchEnds(Cur(i), Len(workers[i].calls)) :
         workers' = [workers EXCEPT ![i].calls = SetCur(i, c),
                                    ![i].failed = @ \/ FetchFailed(c) \/ (c.out = "log" /\ c.at \in {"refDone", "convDone"})]
    /\ UNCHANGED <<poolFrame, concurrency, nScripts, spawned, wg, sem, resultsCh, closed, aggPc,
                   writtenTotal, printed, sent, mainPc, summary>>

\* the chunks are done, or the inline marker did not decode: what the
\* text holds decides what comes next
processScript_Locate(i) ==
    /\ InCall(i)
    /\ Decides(Cur(i))
    /\ \E c \in Decisions(Cur(i)) :
         workers' = [workers EXCEPT ![i].calls = SetCur(i, c),
                                    ![i].failed = @ \/ c.at = "inlineError" \/ (c.out = "log" /\ c.at = "inlineDone")]
    /\ UNCHANGED <<poolFrame, concurrency, nScripts, spawned, wg, sem, resultsCh, closed, aggPc,
                   writtenTotal, printed, sent, mainPc, summary>>

\* processScript returned: the deferred <-sem, then the deferred wg.Done()
Worker_Done(i) ==
    /\ i \in 1..nScripts
    /\ workers[i].pc = "running"
    /\ workers[i].calls = <<>>
    /\ sem' = Released(sem)
    /\ wg' = wg - 1
    /\ workers' = [workers EXCEPT ![i].pc = "done"]
    /\ UNCHANGED <<poolFrame, concurrency, nScripts, spawned, resultsCh, closed, aggPc,
                   writtenTotal, printed, sent, mainPc, summary>>

\* for r := range results: fmt.Println(r), and writtenTotal++ for "WRITTEN:"
Aggregator_Receive ==
    /\ aggPc = "range"
    /\ resultsCh # <<>>
    /\ resultsCh' = Tail(resultsCh)
    /\ printed' = printed + 1
    /\ writtenTotal' = IF Head(resultsCh) = "WRITTEN:" THEN writtenTotal + 1 ELSE writtenTotal
    /\ UNCHANGED <<poolFrame, concurrency, nScripts, spawned, wg, sem, workers, closed, aggPc,
                   sent, mainPc, summary>>

\* the range ends when the channel is closed and empty; endWrite <- struct{}{}
Aggregator_End ==
    /\ aggPc = "range"
    /\ resultsCh = <<>>
    /\ closed
    /\ aggPc' = "endWrite"
    /\ UNCHANGED <<poolFrame, concurrency, nScripts, spawned, wg, sem, workers, resultsCh, closed,
                   writtenTotal, printed, sent, mainPc, summary>>

\* a variant that closes the channel without waiting for the workers
RunCrawl_WaitClose_NoWait ==
    /\ mainPc = "dispatch"
    /\ spawned = nScripts
    /\ closed' = TRUE
    /\ mainPc' = "endWrite"
    /\ UNCHANGED <<poolFrame, concurrency, nScripts, spawned, wg, sem, workers, resultsCh, aggPc,
                   writtenTotal, printed, sent, summary>>

\* wg.Wait(); close(results)
RunCrawl_WaitClose ==
    /\ mainPc = "dispatch"
    /\ spawned = nScripts
    /\ wg = 0
    /\ closed' = TRUE
    /\ mainPc' = "endWrite"
    /\ UNCHANGED <<poolFrame, concurrency, nScripts, spawned, wg, sem, workers, resultsCh, aggPc,
                   writtenTotal, printed, sent, summary>>

\* <-endWrite; "Done. Scripts processed: %d. Sources written groups: %d"
RunCrawl_Summary ==
    /\ mainPc = "endWrite"
    /\ EndWriteReady
    /\ aggPc' = IF aggPc = "endWrite" THEN "ended" ELSE aggPc
    /\ summary' = [scripts |-> nScripts, written |-> writtenTotal]
    /\ mainPc' = "done"
    /\ UNCHANGED <<poolFrame, concurrency, nScripts, spawned, wg, sem, workers, resultsCh, closed,
                   writtenTotal, printed, sent>>

NextPool ==
    \/ RunCrawl_Dispatch
    \/ \E i \in 1..MaxScripts : i <= nScripts /\ Worker_Acquire(i)
    \/ \E i \in 1..MaxScripts : processScript_Send(i)
    \/ \E i \in 1..MaxScripts : processScript_BeginFetch(i)
    \/ \E i \in 1..MaxScripts : processScript_EndFetch(i)
    \/ \E i \in 1..MaxScripts : processScript_Locate(i)
    \/ \E i \in 1..MaxScripts : Worker_Done(i)
    \/ Aggregator_Receive
    \/ Aggregator_End
    \/ RunCrawl_WaitClose
    \/ RunCrawl_Summary

SpecPool == InitPool /\ [][NextPool]_vars

\* The Go scheduler runs a goroutine that can run.
SpecPoolFair == SpecPool /\ WF_vars(NextPool)

(***************************************************************************)
(* Properties of the worker pool.                                          *)
(***************************************************************************)
Executing == { i \in 1..nScripts : workers[i].pc = "running" }

Fetches == { i \in 1..nScripts : InCall(i) /\ Cur(i).at \in InFlight }

\* C11: at most *concurrency goroutines are inside processScript at once,
\* and so at most *concurrency calls of fetchURLBytes are in flight.
C11_BoundedConcurrency ==
    /\ Cardinality(Executing) <= concurrency
    /\ Cardinality(Fetches) <= concurrency
    /\ sem = Cardinality(Executing)

\* Two scripts and one slot: one script has a fetch in flight inside a
\* chunk, the other waits for the slot.
C11_Witness ==
    /\ concurrency = 1
    /\ nScripts = 2
    /\ Cardinality(Fetches) = 1
    /\ \E i \in Executing : Len(workers[i].calls) = 2
    /\ \E i \in 1..nScripts : workers[i].pc = "waiting"

AllDone == \A i \in 1..nScripts : workers[i].pc = "done"

\* C12: with a pool of at least one slot, every dispatched script reaches
\* its end and the summary is printed, whatever failed on the way.
C12_Drain ==
    (concurrency >= 1) => <>(AllDone /\ mainPc = "done" /\ summary.scripts = nScripts)

\* The summary is printed after two scripts went through one slot, one of
\* them with a failure and the other without.
C12_Witness ==
    /\ mainPc = "done"
    /\ concurrency = 1
    /\ nScripts = 2
    /\ AllDone
    /\ \E i, j \in 1..nScripts : workers[i].failed /\ ~workers[j].failed

\* C13: the total of the summary is the number of "WRITTEN:" results sent,
\* every result sent was read before the summary, and writtenTotal changes
\* only as the reader takes a "WRITTEN:" result from the channel.
C13_ExactTotals ==
    /\ [](mainPc = "done" =>
            /\ summary.written = sent[2]
            /\ printed = sent[1]
            /\ resultsCh = <<>>)
    /\ [][writtenTotal' # writtenTotal =>
            /\ aggPc = "range"
            /\ resultsCh # <<>>
            /\ Head(resultsCh) = "WRITTEN:"
            /\ resultsCh' = Tail(resultsCh)
            /\ writtenTotal' = writtenTotal + 1]_vars

\* Two scripts, one of them with a chunk: three "WRITTEN:" results among
\* the results sent, and a summary of 3.
C13_Witness ==
    /\ mainPc = "done"
    /\ nScripts = 2
    /\ sent[2] = 3
    /\ sent[1] > 6
    /\ summary.written = 3

(***************************************************************************)
(* The output root of a script: filepath.Join(outBase, hostPath), with     *)
(* hostPath := hostPathForURL(rootURL, scriptURL), for two scripts of one  *)
(* page.                                                                   *)
(***************************************************************************)
\* outRoot := filepath.Join(outBase, hostPath)
outRoot(scriptURL) == Join(OutBase, hostPathForURL(scriptURL))

\* The src attributes the scripts come from, resolved against the page as
\* parseScriptsHTML resolves them.
SrcPool ==
    { <<"j", "s", "/", "m", ".", "j", "s">>,
      <<"j", "s", "/", "n", ".", "j", "s">>,
      <<"j", "s", "/", "x", "/", "m", ".", "j", "s">>,
      <<"/", "m", ".", "j", "s">>,
      <<"h", "t", "t", "p", ":", "/", "/", "h", ":", "8", "0", "/", "j", "s", "/", "m", ".", "j", "s">>,
      <<"h", "t", "t", "p", "s", ":", "/", "/", "c", "/", "j", "s", "/", "m", ".", "j", "s">>,
      <<"/", "/", ".", ".", "/", "m", ".", "j", "s">>,
      <<"/", "/", ".", "/", "j", "s", "/", "m", ".", "j", "s">>,
      <<"/", "/", ".", ".", ":", "8", "0", "/", "a", "/", "m", ".", "j", "s">>,
      <<"/", "/", "h", ":", "8", "a", "/", "m", ".", "j", "s">>,
      <<"m", ".", "j", "s">> }

ScriptOf(raw) == ResolveParsed(RootPage, Parse(raw))

HostScripts == { ScriptOf(raw).url : raw \in { r \in SrcPool : ~ScriptOf(r).err } }

InitHost ==
    /\ IdlePath
    /\ IdleExtract
    /\ IdleChunk
    /\ IdleCrawl
    /\ IdlePool
    /\ IdleDiscover
    /\ hA \in HostScripts
    /\ hB \in HostScripts
    /\ hOut = <<>>
    /\ hStage = "in"

OutRoots ==
    /\ hStage = "in"
    /\ hOut' = <<outRoot(hA), outRoot(hB)>>
    /\ hStage' = "out"
    /\ UNCHANGED <<pathVars, extVars, chunkVars, crawlVars, poolVars, discVars, hA, hB>>

NextHost == OutRoots

SpecHost == InitHost /\ [][NextHost]_vars

SameOrBelow(dir, p) == Abs(dir) = Abs(p) \/ IsDescendant(dir, p)

\* C14: two distinct scripts have disjoint output roots: neither root is
\* the other or lies below it.
C14_DisjointRoots ==
    (hStage = "out" /\ String(hA) # String(hB))
        => /\ ~SameOrBelow(hOut[1], hOut[2])
           /\ ~SameOrBelow(hOut[2], hOut[1])

\* C15: the output root of every script lies below the output base.
C15_RootUnderBase ==
    hStage = "out" => IsDescendant(OutBase, hOut[1])

(***************************************************************************)
(* parseScriptsHTML.  The page is the sequence of its script elements in   *)
(* document order, as the walk over the parsed tree meets them, each with  *)
(* its attributes in order.  html.Parse reads from a strings.Reader and    *)
(* returns no error, so the scan of parseScriptsRegex is not reached.      *)
(***************************************************************************)
Attr(key, val) == [Key |-> key, Val |-> val]

\* the attributes the loop stops at: src with a value that is not blank
SrcAttrs(attrs) == SelectSeq(attrs, LAMBDA a : a.Key = "src" /\ TrimSpace(a.Val) # <<>>)

\* raw := strings.TrimSpace(a.Val); u, err := url.Parse(raw);
\* base.ResolveReference(u) when err == nil
ElementURLs(attrs, base) ==
    IF SrcAttrs(attrs) = <<>> \/ Parse(TrimSpace(SrcAttrs(attrs)[1].Val)).err
    THEN <<>>
    ELSE << ResolveReference(base, Parse(TrimSpace(SrcAttrs(attrs)[1].Val)).url) >>

RECURSIVE WalkScripts(_, _)
WalkScripts(page, base) ==
    IF page = <<>> THEN <<>>
    ELSE ElementURLs(page[1], base) \o WalkScripts(Tail(page), base)

\* the indices of out whose URL string no earlier index has
Unseen(out) ==
    SelectSeq([k \in 1..Len(out) |-> k],
              LAMBDA k : \A j \in 1..(k - 1) : String(out[j]) # String(out[k]))

dedup_None(out) == out

\* seen[u.String()]: the first of each URL string stays
dedup(out) == [i \in 1..Len(Unseen(out)) |-> out[Unseen(out)[i]]]

parseScriptsHTML(page, base) == dedup(WalkScripts(page, base))

SrcValues ==
    { <<>>,
      <<" ">>,
      <<"a", ".", "j", "s">>,
      <<" ", "a", ".", "j", "s", " ">>,
      <<".", "/", "a", ".", "j", "s">>,
      <<"b", ".", "j", "s">>,
      <<":">>,
      <<"/", "/", "c", "/", "a", ".", "j", "s">> }

ElementPool ==
    { <<>>, << Attr("type", <<"m">>) , Attr("src", <<"b", ".", "j", "s">>) >>,
      << Attr("src", <<>>), Attr("type", <<"m">>) >> }
    \cup { << Attr("src", v) >> : v \in SrcValues }

Pages == SeqsUpTo(ElementPool, MaxElements)

InitDiscover ==
    /\ IdlePath
    /\ IdleExtract
    /\ IdleChunk
    /\ IdleCrawl
    /\ IdlePool
    /\ IdleHost
    /\ dPage \in Pages
    /\ dBase = RootPage
    /\ dOut = <<>>
    /\ dStage = "in"

\* scripts := parseScriptsHTML(string(body), rootURL)
Discover ==
    /\ dStage = "in"
    /\ dOut' = parseScriptsHTML(dPage, dBase)
    /\ dStage' = "out"
    /\ UNCHANGED <<pathVars, extVars, chunkVars, crawlVars, poolVars, hostVars, dPage, dBase>>

NextDiscover == Discover

SpecDiscover == InitDiscover /\ [][NextDiscover]_vars

\* The reference of an element, as a URL string: the trimmed value of its
\* src, resolved against the page.
Blank(attrs) == \A k \in 1..Len(attrs) : attrs[k].Key = "src" => TrimSpace(attrs[k].Val) = <<>>

\* the URL strings the elements of the page refer to
RefsOf(attrs, base) == { String(ElementURLs(attrs, base)[k]) : k \in 1..Len(ElementURLs(attrs, base)) }

Referenced(page, base) == UNION { RefsOf(page[e], base) : e \in 1..Len(page) }

\* the first element of the page that refers to the URL string s
FirstRef(page, base, s) ==
    CHOOSE e \in 1..Len(page) :
        /\ s \in RefsOf(page[e], base)
        /\ \A f \in 1..(e - 1) : s \notin RefsOf(page[f], base)

Written == { w[1] : w \in wrote }

BlockedAt(i) == ~NoContent(i) /\ Resolved(i).err

WritableAt(i) == ~NoContent(i) /\ ~Resolved(i).err

\* C17, with the failure of a directory or file that ends the run set
\* apart: the step at an entry with content whose path is blocked writes
\* nothing, counts one skip in RunExtract, leaves written alone and goes on
\* to the next entry; and when the loop ends without such a failure every
\* entry with content and a path that resolves is written.
C17_BlockRecoverable ==
    /\ [][(InLoop /\ BlockedAt(idx)) =>
            /\ idx' = idx + 1
            /\ pc' = "loop"
            /\ written' = written
            /\ files' = files
            /\ wrote' = wrote
            /\ skipped' = IF mode = "extract" THEN skipped + 1 ELSE skipped]_vars
    /\ []((pc = "done" /\ sm.valid /\ ~retErr) =>
            \A i \in 1..Len(sm.Sources) : WritableAt(i) => i \in Written)

\* RunExtract printed its summary: the first entry was blocked and counted
\* as the one skip, the second was written.
C17_Witness ==
    /\ mode = "extract"
    /\ pc = "done"
    /\ Len(sm.Sources) = 2
    /\ BlockedAt(1)
    /\ Written = {2}
    /\ written = 1
    /\ skipped = 1

\* C17 as stated: once the run is over, every entry with content and a path
\* that resolves, met after a blocked entry, is written.
C17_LaterAlwaysWritten ==
    (pc \in {"done", "failed"} /\ sm.valid) =>
        \A i, j \in 1..Len(sm.Sources) :
            (i < j /\ BlockedAt(i) /\ WritableAt(j)) => j \in Written

\* 2xx
Success(r) == ~r.fail /\ r.status >= 200 /\ r.status <= 299

\* C16: fetchURLBytes fails for every answer that is not 2xx, and one call
\* of processScript asks for no URL twice.
C16_FetchOnce ==
    /\ \A k \in 1..Len(fetched) :
          (fetched[k].url \in DOMAIN web /\ ~Success(web[fetched[k].url]))
              => FetchResult(web[fetched[k].url]).err
    /\ \A i, j \in 1..Len(fetched) :
          (i < j /\ fetched[i].script = fetched[j].script /\ fetched[i].depth = fetched[j].depth)
              => fetched[i].url # fetched[j].url

\* C19: no URL is processed twice in one crawl, whatever chunks a chunk
\* derives.
C19_VisitedOnce ==
    \A i, j \in 1..Len(fetched) :
        (i < j /\ fetched[i].why = "script" /\ fetched[j].why = "script")
            => fetched[i].url # fetched[j].url

\* C20: no path that resolveUnderAnchor returns is <outDir>/.anchor or lies
\* below it.
C20_AnchorNeverFinal ==
    (pStage = "resolved" /\ ~pRes.err) => ~SameOrBelow(Join(pOut, AnchorName), pRes.abs)

\* tmp := filepath.Join(subAnchor, normKeep); clean := filepath.Clean(tmp),
\* for entry i under the anchors built for the document
JoinedAt(i) == Clean(Join(buildAnchors(outputDir, maxUp).sub, NormOf(sm, i)))

\* the path after the "../" that countLeadingUps counts
AfterLeadingUps(p) == Drop(p, 3 * countLeadingUps(p))

\* every ".." segment of p is in the leading run that countLeadingUps counts
UpsOnlyLeading(p) == <<".", ".">> \notin Range(Split(AfterLeadingUps(p), "/"))

UnderBaseAt(i) == SameOrBelow(buildAnchors(outputDir, maxUp).base, JoinedAt(i))

\* C21, for the paths whose ".." segments are all counted: for every entry
\* that resolveUnderAnchor was called for, the cleaned join of its
\* normalized path onto the subAnchor is the baseAnchor or below it when all
\* its ".." segments are in the leading run of "../"; and for every such
\* entry the cleaned join is above the baseAnchor exactly when
\* resolveUnderAnchor returns the traversal block.
C21_DepthBoundsAscent ==
    \A i \in resolved :
        /\ UpsOnlyLeading(NormOf(sm, i)) => UnderBaseAt(i)
        /\ UnderBaseAt(i) <=> ~Resolved(i).err

\* an entry with two leading "../" was resolved at depth 2 and its cleaned
\* join is below the baseAnchor
C21_Witness ==
    /\ maxUp = 2
    /\ \E i \in resolved :
          /\ countLeadingUps(NormOf(sm, i)) = 2
          /\ UpsOnlyLeading(NormOf(sm, i))
          /\ UnderBaseAt(i)
          /\ ~Resolved(i).err

\* C21 as stated: the cleaned join of every entry with content is the
\* baseAnchor or below it.
C21_NeverAboveBase == \A i \in resolved : UnderBaseAt(i)

\* the results with which a call of processScript ends
Terminal ==
    { "Failed to fetch script",
      "WRITTEN inline map", "WRITTEN referenced map", "WRITTEN conventional map",
      "Error processing inline map", "Error processing referenced map",
      "Error processing conventional map",
      "No sourcemap" }

\* the index of the "Processing" of the call at depth d that is running at
\* index j of the results: the last one before j
StartOf(j, d) ==
    Max({0} \cup { i \in 1..j : results[i].msg = "Processing" /\ results[i].depth = d })

\* the chunk announced at index i has its terminal result before index j
ChunkEndedBetween(i, j) ==
    \E t \in (i + 1)..(j - 1) :
        /\ results[t].msg \in Terminal
        /\ results[t].depth = results[i].depth + 1
        /\ results[t].script = results[i].script

\* C22: a call of processScript that has a caller was made from the chunk
\* loop of the caller, which waits there; a call leaves its chunk loop, to
\* save the script and to look for the map, only when no chunk is left; and
\* in the results every chunk a call announced has its terminal result
\* before the terminal result of that call.
C22_ChunkBeforeParent ==
    /\ [](\A k \in 1..(Len(stack) - 1) : stack[k].at = "chunks")
    /\ [][(/\ stack # <<>>
           /\ Len(stack') = Len(stack)
           /\ Top.at = "chunks"
           /\ stack'[Len(stack)].at # "chunks") => Top.chunks = <<>>]_vars
    /\ [](\A j \in 1..Len(results) :
            results[j].msg \in Terminal =>
                \A i \in StartOf(j, results[j].depth)..j :
                    (i >= 1 /\ results[i].msg = "Discovered chunk" /\ results[i].depth = results[j].depth)
                        => ChunkEndedBetween(i, j))

\* the script announced a chunk, the chunk's map was written, and then the
\* script's own inline map
C22_Witness ==
    /\ stack = <<>>
    /\ saveJS
    /\ \E i, t, j \in 1..Len(results) :
          /\ i < t /\ t < j
          /\ results[i].msg = "Discovered chunk" /\ results[i].depth = 1
          /\ results[t].msg = "WRITTEN conventional map" /\ results[t].depth = 2
          /\ results[t].script = results[i].script
          /\ results[j].msg = "WRITTEN inline map" /\ results[j].depth = 1

\* the calls of processScript, each by the index of its "Processing"
Calls == { s \in 1..Len(results) : results[s].msg = "Processing" }

LaterCalls(s) ==
    { i \in (s + 1)..Len(results) :
        results[i].msg = "Processing" /\ results[i].depth = results[s].depth }

\* the index at which the results of call s end: the next call at its depth
NextCall(s) ==
    IF LaterCalls(s) = {} THEN Len(results) + 1
    ELSE CHOOSE i \in LaterCalls(s) : \A j \in LaterCalls(s) : i <= j

\* the results call s sent itself, those of its chunks left out
Own(s) == { i \in s..(NextCall(s) - 1) : results[i].depth = results[s].depth }

\* call s is over: its frame is gone, or another call took its depth
HasReturned(s) == Len(stack) < results[s].depth \/ LaterCalls(s) # {}

\* C23: every result of a call comes after the "Processing" of that call
\* and after no terminal result of it; a call that has returned has sent a
\* terminal result (so exactly one, its last); a call that said "Failed to
\* fetch script" sent nothing else but "Processing", no WRITTEN and no
\* chunk; and the step in which a call returns is the step that sends its
\* terminal result.
C23_OneTerminal ==
    /\ [](\A i \in 1..Len(results) :
            /\ StartOf(i, results[i].depth) >= 1
            /\ \A t \in StartOf(i, results[i].depth)..(i - 1) :
                  ~(results[t].depth = results[i].depth /\ results[t].msg \in Terminal))
    /\ [](\A s \in Calls :
            /\ HasReturned(s) => \E t \in Own(s) : results[t].msg \in Terminal
            /\ \A t \in Own(s) : results[t].msg = "Failed to fetch script" => Own(s) = {s, t})
    /\ [][Len(stack') < Len(stack) =>
            /\ Len(results') > Len(results)
            /\ results'[Len(results')].msg \in Terminal
            /\ results'[Len(results')].depth = Len(stack)
            /\ results'[Len(results')].script = String(Top.script)]_vars

\* the chunk was not fetched; the script said that its inline map does not
\* decode and ended with "No sourcemap"
C23_Witness ==
    /\ stack = <<>>
    /\ \E s, t, e, j \in 1..Len(results) :
          /\ s \in Calls /\ results[s].depth = 2
          /\ t \in Own(s) /\ results[t].msg = "Failed to fetch script"
          /\ e > t /\ results[e].depth = 1 /\ results[e].msg = "Inline map decode error"
          /\ j = Len(results) /\ results[j].depth = 1 /\ results[j].msg = "No sourcemap"

\* the goroutine of script i has returned, with every call of processScript
\* it made
WorkerReturned(i) == workers[i].pc = "done" /\ workers[i].calls = <<>>

\* C24: close(results) is called with every worker started and returned and
\* the WaitGroup at zero; while the channel is closed every worker has
\* returned, and no step sends on it; and when the summary is printed the
\* reader has left its loop and handed over on endWrite.
C24_NoSendAfterClose ==
    /\ [][(closed' /\ ~closed) =>
            /\ wg = 0
            /\ spawned = nScripts
            /\ \A i \in 1..nScripts : WorkerReturned(i)]_vars
    /\ [](closed => \A i \in 1..nScripts : WorkerReturned(i))
    /\ [][sent'[1] > sent[1] => (~closed /\ ~closed')]_vars
    /\ [](mainPc = "done" => (closed /\ aggPc = "ended" /\ resultsCh = <<>>))

\* two scripts with a chunk among them have returned and the channel is
\* closed, while the reader still has results to take from it
C24_Witness ==
    /\ closed
    /\ mainPc = "endWrite"
    /\ aggPc = "range"
    /\ resultsCh # <<>>
    /\ nScripts = 2
    /\ sent[1] > 8
    /\ \A i \in 1..nScripts : WorkerReturned(i)

\* C25: for every pool size, zero included, and at least one script, every
\* worker gets its slot and gives it back, and wg.Wait returns with no slot
\* of sem taken.
C25_SlotLive ==
    (nScripts >= 1) => <>(AllDone /\ sem = 0 /\ wg = 0 /\ mainPc # "dispatch")

====
